---- MODULE Spec2Model ----
(***************************************************************************)
(* A model of the serializer_core package: the field kinds and their byte  *)
(* codecs (fields.py), the packing plan and the message codec              *)
(* (messages.py), the registry (registry.py) and the stream reassembler    *)
(* (stream.py).                                                            *)
(*                                                                         *)
(* Representation.  A byte string is a sequence of numbers 0..255.  A text *)
(* string is the sequence of its character codes (all texts are ASCII, so  *)
(* encoding to utf-8 keeps the codes).  A float handled by a fixed-point   *)
(* field is a whole number of 1/FloatDen units.  An enum member is its     *)
(* integer value (the enums are IntEnums, equal to their values).  Python  *)
(* None is the value None for numbers, NoneSeq for strings and lists and   *)
(* NoneDict for bit-group mappings.  A call that may raise returns a       *)
(* record: Ok(value, consumed) or Raise(exception class).                  *)
(***************************************************************************)
EXTENDS Integers, Sequences, FiniteSets, TLC

None == -999999
NoneSeq == <<None>>
NoneDict == [k \in {"None"} |-> None]

Ok(v, n) == [ok |-> TRUE, exc |-> "", val |-> v, n |-> n]
Raise(e) == [ok |-> FALSE, exc |-> e, val |-> None, n |-> 0]

Take(s, n) == SubSeq(s, 1, IF n < Len(s) THEN n ELSE Len(s))
Drop(s, n) == SubSeq(s, n + 1, Len(s))
Min(a, b) == IF a < b THEN a ELSE b

RECURSIVE Pow2(_)
Pow2(n) == IF n = 0 THEN 1 ELSE 2 * Pow2(n - 1)

RECURSIVE Repeat(_, _)
Repeat(x, n) == IF n <= 0 THEN <<>> ELSE <<x>> \o Repeat(x, n - 1)

\* Floats of fixed-point fields are counted in units of 1/FloatDen.
FloatDen == Pow2(4)

(***************************************************************************)
(* Fields (fields.py).  One record shape for every kind; a kind reads only *)
(* its own attributes.  byte_order "" is Python's None (inherit).          *)
(***************************************************************************)
Field0 ==
  [name |-> "", kind |-> "prim", fmt_char |-> "B", byte_order |-> "",
   default |-> None,
   is_discriminator |-> FALSE, is_checksum |-> FALSE, is_length |-> FALSE,
   is_timestamp |-> FALSE,
   start_field |-> "", end_field |-> "", algorithm |-> "CRC16",
   size_mode |-> "Fixed", length |-> 0,
   members |-> {}, names |-> <<>>,
   integer_bits |-> 0, fractional_bits |-> 0, encoding |-> 0,
   bits |-> <<>>, bit_order |-> "LSB",
   mode |-> "Fixed", count |-> 0, item_char |-> "B", item_order |-> ""]

PrimitiveField(name, ch) == [Field0 EXCEPT !.name = name, !.fmt_char = ch]
UInt8(name) == PrimitiveField(name, "B")
Int8(name) == PrimitiveField(name, "b")
UInt16(name) == PrimitiveField(name, "H")
Int16(name) == PrimitiveField(name, "h")
UInt32(name) == PrimitiveField(name, "I")

StringField(name, size_mode, length) ==
  [Field0 EXCEPT !.name = name, !.kind = "str", !.size_mode = size_mode,
                 !.length = length, !.default = NoneSeq]

EnumField(name, members, ch) ==
  [Field0 EXCEPT !.name = name, !.kind = "enum", !.members = members,
                 !.fmt_char = ch]

\* An enum whose members have text values, stored as text: names lists
\* [value, name] for each member.  A member stands for its value.
StringEnumField(name, names) ==
  [Field0 EXCEPT !.name = name, !.kind = "enum", !.fmt_char = "s",
                 !.members = {names[i].value : i \in 1..Len(names)},
                 !.names = names, !.default = NoneSeq]

FixedPointField(name, ibits, fbits, encoding) ==
  [Field0 EXCEPT !.name = name, !.kind = "fixed", !.integer_bits = ibits,
                 !.fractional_bits = fbits, !.encoding = encoding]

Bit(width, name) == [width |-> width, name |-> name]

BitField(name, bits, ch, bit_order) ==
  [Field0 EXCEPT !.name = name, !.kind = "bits", !.bits = bits,
                 !.fmt_char = ch, !.bit_order = bit_order,
                 !.default = NoneDict]

\* An array of primitive items; item_order is the item's own byte_order.
ArrayField(name, item_char, item_order, mode, count) ==
  [Field0 EXCEPT !.name = name, !.kind = "array", !.item_char = item_char,
                 !.item_order = item_order, !.mode = mode, !.count = count,
                 !.default = NoneSeq]

Default(f, d) == [f EXCEPT !.default = d]
Order(f, bo) == [f EXCEPT !.byte_order = bo]
Discriminator(f, d) == [f EXCEPT !.is_discriminator = TRUE, !.default = d]
Length(f, s, e) == [f EXCEPT !.is_length = TRUE, !.start_field = s, !.end_field = e]
Checksum(f, a, s, e) ==
  [f EXCEPT !.is_checksum = TRUE, !.algorithm = a, !.start_field = s, !.end_field = e]
Timestamp(f) == [f EXCEPT !.is_timestamp = TRUE]

NoneOf(f) ==
  IF f.kind \in {"str", "array"} \/ (f.kind = "enum" /\ f.fmt_char = "s") THEN NoneSeq
  ELSE IF f.kind = "bits" THEN NoneDict
  ELSE None

(***************************************************************************)
(* struct formats: sizes, ranges, packing of one number.                   *)
(***************************************************************************)
ChSize(ch) ==
  CASE ch \in {"B", "b", "?", "s"} -> 1
    [] ch \in {"H", "h"} -> 2
    [] ch \in {"I", "i"} -> 4
    [] OTHER -> 8

ChSigned(ch) == ch \in {"b", "h", "i", "q"}

\* struct.pack's range check for one integer.
InRange(ch, v) ==
  CASE ch = "B" -> 0 <= v /\ v <= 255
    [] ch = "b" -> -128 <= v /\ v <= 127
    [] ch = "H" -> 0 <= v /\ v <= 65535
    [] ch = "h" -> -32768 <= v /\ v <= 32767
    [] ch \in {"I", "Q"} -> 0 <= v
    [] OTHER -> TRUE

\* The n low bytes of v, least significant first (two's complement).
RECURSIVE LowBytes(_, _)
LowBytes(v, n) ==
  IF n = 0 THEN <<>> ELSE <<v % 256>> \o LowBytes(v \div 256, n - 1)

Reverse(s) == [i \in 1..Len(s) |-> s[Len(s) + 1 - i]]

\* struct.pack(endian + ch, v) for an in-range integer.
PackInt(ch, endian, v) ==
  LET w == IF ch = "?" THEN (IF v = 0 THEN 0 ELSE 1) ELSE v
      le == LowBytes(w, ChSize(ch))
  IN IF endian = ">" THEN Reverse(le) ELSE le

RECURSIVE LeValue(_)
LeValue(bs) == IF bs = <<>> THEN 0 ELSE bs[1] + 256 * LeValue(Tail(bs))

\* struct.unpack(endian + ch, bs)[0], bs of the format's size.
UnpackInt(ch, endian, bs) ==
  LET le == IF endian = ">" THEN Reverse(bs) ELSE bs
      u == LeValue(le)
      top == le[Len(le)]
  IN IF ch = "?" THEN (IF u = 0 THEN 0 ELSE 1)
     ELSE IF ChSigned(ch) /\ top >= 128
          THEN LeValue(SubSeq(le, 1, Len(le) - 1)) + (top - 256) * Pow2(8 * (Len(le) - 1))
          ELSE u

(***************************************************************************)
(* A field's struct attributes once its message is registered with default *)
(* byte order E (Field.resolve_endianness and the kinds' constructors).    *)
(***************************************************************************)
\* resolve_endianness: the field's own byte order, else the message's.
ByteOrder(f, E) == IF f.byte_order = "" THEN E ELSE f.byte_order

\* FixedPointField._create_struct: the backing primitive's format char.
FpChar(f) ==
  LET total == f.integer_bits + f.fractional_bits + (IF f.encoding = 2 THEN 1 ELSE 0)
      signed == f.encoding = 1
  IN IF total <= 8 THEN (IF signed THEN "b" ELSE "B")
     ELSE IF total <= 16 THEN (IF signed THEN "h" ELSE "H")
     ELSE IF total <= 32 THEN (IF signed THEN "i" ELSE "I")
     ELSE (IF signed THEN "q" ELSE "Q")

NoFmt == [has |-> FALSE, valid |-> FALSE, endian |-> "", n |-> 0, ch |-> "B"]
Fmt(endian, n, ch) ==
  [has |-> TRUE, valid |-> endian \in {"", "<", ">"}, endian |-> endian,
   n |-> n, ch |-> ch]

\* field.struct_format ("" is NoFmt).  A bit-group copies its base field's
\* format when it is built, before any byte order is inherited; a fixed
\* array of primitives formats the item's own byte order into the string,
\* None included.
StructFormat(f, E) ==
  CASE f.kind \in {"prim", "enum"} /\ f.fmt_char # "s" ->
         Fmt(ByteOrder(f, E), 1, f.fmt_char)
    [] f.kind = "str" \/ (f.kind = "enum" /\ f.fmt_char = "s") ->
         IF f.size_mode = "Fixed" THEN Fmt("", f.length, "s") ELSE NoFmt
    [] f.kind = "fixed" -> Fmt(ByteOrder(f, E), 1, FpChar(f))
    [] f.kind = "bits" ->
         IF f.byte_order = "" THEN NoFmt ELSE Fmt(f.byte_order, 1, f.fmt_char)
    [] OTHER ->
         IF f.mode = "Fixed"
         THEN Fmt(IF f.item_order = "" THEN "None" ELSE f.item_order,
                  f.count, f.item_char)
         ELSE NoFmt

FmtSize(fmt) == fmt.n * ChSize(fmt.ch)

\* hasattr(field, '_struct') and field._struct
HasStruct(f) ==
  \/ f.kind \in {"prim", "enum", "fixed"}
  \/ f.kind = "str" /\ f.size_mode = "Fixed"

(***************************************************************************)
(* Checksums (checksums.py).                                               *)
(***************************************************************************)
RECURSIVE BitXor(_, _)
BitXor(a, b) ==
  IF a = 0 THEN b
  ELSE IF b = 0 THEN a
  ELSE ((a + b) % 2) + 2 * BitXor(a \div 2, b \div 2)

RECURSIVE SumBytes(_)
SumBytes(bs) == IF bs = <<>> THEN 0 ELSE bs[1] + SumBytes(Tail(bs))

RECURSIVE xor_sum(_)
xor_sum(bs) == IF bs = <<>> THEN 0 ELSE BitXor(bs[1], xor_sum(Tail(bs)))

byte_sum(bs) == SumBytes(bs) % 256
byte_sum_ones_complement(bs) == 255 - byte_sum(bs)
byte_sum_twos_complement(bs) == (256 - byte_sum(bs)) % 256

RECURSIVE Crc16Shift(_, _)
Crc16Shift(crc, k) ==
  IF k = 0 THEN crc
  ELSE Crc16Shift(IF (crc \div 32768) % 2 = 1
                  THEN BitXor(2 * crc, 4129)
                  ELSE 2 * crc, k - 1)

RECURSIVE Crc16From(_, _)
\* crc is within 16 bits at the head of every pass (crc &= 0xFFFF).
Crc16From(crc, bs) ==
  IF bs = <<>> \/ crc \notin 0..65535 THEN crc
  ELSE Crc16From(Crc16Shift(BitXor(crc, bs[1] * 256), 8) % 65536, Tail(bs))

\* The same polynomial from a register that starts at 0.
crc16_zeroinit(bs) == Crc16From(0, bs)
crc16(bs) == Crc16From(65535, bs)

RECURSIVE WordSum(_)
WordSum(bs) ==
  IF bs = <<>> THEN 0 ELSE bs[2] * 256 + bs[1] + WordSum(Tail(Tail(bs)))

additive_word(bs) ==
  WordSum(IF Len(bs) % 2 = 1 THEN bs \o <<0>> ELSE bs) % 65536

calculate(algo, bs) ==
  CASE algo = "CRC16" -> crc16(bs)
    [] algo = "XOR" -> xor_sum(bs)
    [] algo = "ByteSum" -> byte_sum(bs)
    [] algo = "ByteSum1C" -> byte_sum_ones_complement(bs)
    [] algo = "ByteSum2C" -> byte_sum_twos_complement(bs)
    [] algo = "AdditiveWord" -> additive_word(bs)
    [] OTHER -> 0

(***************************************************************************)
(* The fields' own byte codecs (to_bytes / from_bytes of fields.py).       *)
(***************************************************************************)
\* struct.Struct(endian + ch).pack(v)
StructPack(ch, endian, v) ==
  IF InRange(ch, v) THEN Ok(PackInt(ch, endian, v), ChSize(ch))
  ELSE Raise("struct.error")

RECURSIVE PackAll(_, _, _)
PackAll(ch, endian, vs) ==
  IF vs = <<>> THEN Ok(<<>>, 0)
  ELSE LET h == StructPack(ch, endian, vs[1])
           t == PackAll(ch, endian, Tail(vs))
       IN IF ~h.ok THEN h
          ELSE IF ~t.ok THEN t
          ELSE Ok(h.val \o t.val, h.n + t.n)

RECURSIVE UnpackAll(_, _, _)
UnpackAll(ch, endian, bs) ==
  IF bs = <<>> THEN <<>>
  ELSE <<UnpackInt(ch, endian, Take(bs, ChSize(ch)))>>
       \o UnpackAll(ch, endian, Drop(bs, ChSize(ch)))

\* PrimitiveField.to_bytes of a field whose byte order is `order` ("" when
\* it was never set: the field then has no _struct).
PrimToBytes(ch, order, isTs, default, value, now) ==
  LET v1 == IF isTs THEN now ELSE value
      v2 == IF v1 = None /\ default # None THEN default ELSE v1
      v3 == IF v2 = None THEN 0 ELSE v2
  IN IF order = "" THEN Raise("AttributeError") ELSE StructPack(ch, order, v3)

\* PrimitiveField.from_bytes
PrimFromBytes(ch, order, data) ==
  IF order = "" THEN Raise("AttributeError")
  ELSE IF Len(data) < ChSize(ch) THEN Raise("ValueError")
  ELSE Ok(UnpackInt(ch, order, Take(data, ChSize(ch))), ChSize(ch))

\* StringField.to_bytes
StringToBytes(f, value) ==
  LET v1 == IF value = NoneSeq /\ f.default # NoneSeq THEN f.default ELSE value
      v2 == IF v1 = NoneSeq THEN <<>> ELSE v1
  IN IF f.size_mode = "Fixed"
     THEN LET cut == Take(v2, f.length)
          IN Ok(cut \o Repeat(0, f.length - Len(cut)), f.length)
     ELSE Ok(PackInt("I", "<", Len(v2)) \o v2, 4 + Len(v2))

\* str.rstrip('\x00')
RECURSIVE RStripNul(_)
RStripNul(s) ==
  IF s # <<>> /\ s[Len(s)] = 0 THEN RStripNul(SubSeq(s, 1, Len(s) - 1)) ELSE s

\* bytes.decode('utf-8') fails on a byte that is no ASCII code and starts no
\* well-formed multi-byte sequence; the model's texts are ASCII.
Utf8Ok(bs) == \A i \in 1..Len(bs) : bs[i] < 128

\* StringField.from_bytes
StringFromBytes(f, data) ==
  IF f.size_mode = "Fixed"
  THEN IF Len(data) < f.length THEN Raise("ValueError")
       ELSE IF ~Utf8Ok(Take(data, f.length)) THEN Raise("UnicodeDecodeError")
       ELSE Ok(RStripNul(Take(data, f.length)), f.length)
  ELSE IF Len(data) < 4 THEN Raise("ValueError")
       ELSE LET l == UnpackInt("I", "<", Take(data, 4))
            IN IF Len(data) < 4 + l THEN Raise("ValueError")
               ELSE IF ~Utf8Ok(SubSeq(data, 5, 4 + l)) THEN Raise("UnicodeDecodeError")
               ELSE Ok(SubSeq(data, 5, 4 + l), 4 + l)

\* int(x) of the float num/den: truncation towards zero.
Trunc(num, den) == IF num >= 0 THEN num \div den ELSE -((-num) \div den)
Abs(x) == IF x < 0 THEN -x ELSE x

\* FixedPointField.to_bytes
FixedToBytes(f, E, value) ==
  LET v1 == IF value = None /\ f.default # None THEN f.default ELSE value
      v == IF v1 = None THEN 0 ELSE v1
      scale == Pow2(f.fractional_bits)
      msb_pos == f.integer_bits + f.fractional_bits
  IN IF f.encoding = 2
     THEN LET direction_flag == IF v < 0 THEN 1 ELSE 0
              raw_val == Trunc(Abs(v) * scale, FloatDen) % Pow2(msb_pos)
          IN StructPack(FpChar(f), ByteOrder(f, E),
                        raw_val + direction_flag * Pow2(msb_pos))
     ELSE StructPack(FpChar(f), ByteOrder(f, E), Trunc(v * scale, FloatDen))

\* FixedPointField.from_bytes.  raw / scale is a whole number of units as
\* long as scale divides FloatDen.
FixedFromBytes(f, E, data) ==
  LET size == ChSize(FpChar(f))
      scale == Pow2(f.fractional_bits)
      msb_pos == f.integer_bits + f.fractional_bits
  IN IF Len(data) < size THEN Raise("struct.error")
     ELSE LET raw_val == UnpackInt(FpChar(f), ByteOrder(f, E), Take(data, size))
          IN IF f.encoding = 2
             THEN LET direction_flag == (raw_val \div Pow2(msb_pos)) % 2
                      magnitude == ((raw_val % Pow2(msb_pos)) * FloatDen) \div scale
                  IN Ok(IF direction_flag = 1 THEN -magnitude ELSE magnitude, size)
             ELSE Ok((raw_val * FloatDen) \div scale, size)

RECURSIVE SumWidths(_)
SumWidths(bits) == IF bits = <<>> THEN 0 ELSE bits[1].width + SumWidths(Tail(bits))

\* The shift of the i-th bit of a bit-group.
BitShift(f, i) ==
  LET current_shift == SumWidths(SubSeq(f.bits, 1, i - 1))
  IN IF f.bit_order = "MSB"
     THEN SumWidths(f.bits) - current_shift - f.bits[i].width
     ELSE current_shift

RECURSIVE BitsPackFrom(_, _, _)
BitsPackFrom(f, value, i) ==
  IF i > Len(f.bits) THEN 0
  ELSE LET b == f.bits[i]
           val == (IF b.name \in DOMAIN value THEN value[b.name] ELSE 0) % Pow2(b.width)
       IN val * Pow2(BitShift(f, i)) + BitsPackFrom(f, value, i + 1)

\* BitField.to_bytes.  The base field was built with the bit-group's own
\* keyword arguments and is never told an inherited byte order.
BitsToBytes(f, value, now) ==
  LET v1 == IF value = NoneDict /\ f.default # NoneDict THEN f.default ELSE value
      packed_int == IF v1 = NoneDict THEN 0 ELSE BitsPackFrom(f, v1, 1)
  IN PrimToBytes(f.fmt_char, f.byte_order, f.is_timestamp, None, packed_int, now)

\* BitField.from_bytes
BitsFromBytes(f, data) ==
  LET r == PrimFromBytes(f.fmt_char, f.byte_order, data)
  IN IF ~r.ok THEN r
     ELSE Ok([nm \in {f.bits[i].name : i \in 1..Len(f.bits)} |->
                LET i == CHOOSE j \in 1..Len(f.bits) : f.bits[j].name = nm
                IN (r.val \div Pow2(BitShift(f, i))) % Pow2(f.bits[i].width)],
             r.n)

RECURSIVE ItemsToBytes(_, _)
ItemsToBytes(f, vs) ==
  IF vs = <<>> THEN Ok(<<>>, 0)
  ELSE LET h == PrimToBytes(f.item_char, f.item_order, FALSE, None, vs[1], 0)
           t == ItemsToBytes(f, Tail(vs))
       IN IF ~h.ok THEN h
          ELSE IF ~t.ok THEN t
          ELSE Ok(h.val \o t.val, h.n + t.n)

\* ArrayField.to_bytes.  `padded` is the list the instance holds afterwards:
\* a short list of a Fixed array is extended in place with None.
ArrayPadded(f, value) ==
  IF f.mode = "Fixed" /\ value # NoneSeq /\ Len(value) < f.count
  THEN value \o Repeat(None, f.count - Len(value))
  ELSE value

ArrayToBytes(f, value) ==
  LET v1 == IF value = NoneSeq /\ f.default # NoneSeq THEN f.default ELSE value
      v2 == IF v1 = NoneSeq THEN <<>> ELSE v1
  IN IF f.mode = "Fixed"
     THEN LET vs == Take(v2 \o Repeat(None, f.count - Len(v2)), f.count)
              sanitized == [i \in 1..Len(vs) |-> IF vs[i] = None THEN 0 ELSE vs[i]]
          IN IF f.item_order = "" THEN Raise("struct.error")
             ELSE PackAll(f.item_char, f.item_order, sanitized)
     ELSE ItemsToBytes(f, v2)

RECURSIVE DynamicItems(_, _)
DynamicItems(f, data) ==
  IF data = <<>> THEN Ok(<<>>, 0)
  ELSE LET h == PrimFromBytes(f.item_char, f.item_order, data)
       IN IF ~h.ok
          THEN (IF h.exc \in {"ValueError", "struct.error"} THEN Ok(<<>>, 0) ELSE h)
          ELSE LET t == DynamicItems(f, Drop(data, h.n))
               IN IF ~t.ok THEN t ELSE Ok(<<h.val>> \o t.val, h.n + t.n)

\* ArrayField.from_bytes
ArrayFromBytes(f, data) ==
  IF f.mode = "Fixed"
  THEN LET size == f.count * ChSize(f.item_char)
       IN IF f.item_order = "" THEN Raise("struct.error")
          ELSE IF Len(data) < size THEN Raise("ValueError")
          ELSE Ok(UnpackAll(f.item_char, f.item_order, Take(data, size)), size)
  ELSE IF f.mode = "Dynamic" THEN DynamicItems(f, data)
  ELSE Ok(<<>>, 0)

\* EnumField.from_bytes: a value outside the enum comes back as it is.
EnumFromBytes(f, E, data) == PrimFromBytes(f.fmt_char, ByteOrder(f, E), data)

\* field.to_bytes(value) of a registered message's field
FieldToBytes(f, E, value, now) ==
  CASE f.kind = "prim" ->
         PrimToBytes(f.fmt_char, ByteOrder(f, E), f.is_timestamp, f.default, value, now)
    [] f.kind = "enum" ->
         PrimToBytes(f.fmt_char, ByteOrder(f, E), f.is_timestamp, f.default, value, now)
    [] f.kind = "str" -> StringToBytes(f, value)
    [] f.kind = "fixed" -> FixedToBytes(f, E, value)
    [] f.kind = "bits" -> BitsToBytes(f, value, now)
    [] OTHER -> ArrayToBytes(f, value)

\* field.from_bytes(data) of a registered message's field
FieldFromBytes(f, E, data) ==
  CASE f.kind = "prim" -> PrimFromBytes(f.fmt_char, ByteOrder(f, E), data)
    [] f.kind = "enum" -> EnumFromBytes(f, E, data)
    [] f.kind = "str" -> StringFromBytes(f, data)
    [] f.kind = "fixed" -> FixedFromBytes(f, E, data)
    [] f.kind = "bits" -> BitsFromBytes(f, data)
    [] OTHER -> ArrayFromBytes(f, data)

(***************************************************************************)
(* Messages (messages.py).  A message class is a record                    *)
(*   [name, fields (in declared order), endianness, protocol_mode];        *)
(* an instance is a function from its field names to values.               *)
(***************************************************************************)
MessageClass(name, endianness, fields) ==
  [name |-> name, fields |-> fields, endianness |-> endianness,
   protocol_mode |-> "binary"]

FieldNames(S) == {S.fields[i].name : i \in 1..Len(S.fields)}
FieldOf(S, nm) == S.fields[CHOOSE i \in 1..Len(S.fields) : S.fields[i].name = nm]

\* Message.__init__ without arguments: each field's default, else None.
NewInstance(S) == [nm \in FieldNames(S) |-> FieldOf(S, nm).default]

StructStep(endian, names) == [action |-> "struct", endian |-> endian, names |-> names]
ComplexStep(name) == [action |-> "complex", endian |-> "", names |-> <<name>>]

\* flush() of the register decorator
Flush(names, endian) == IF names = <<>> THEN <<>> ELSE <<StructStep(endian, names)>>

\* The loop of the register decorator that builds the packing plan.
\* `endian` is current_endian, "None" while no run is open.
RECURSIVE PlanFrom(_, _, _, _, _)
PlanFrom(fields, E, i, names, endian) ==
  IF i > Len(fields) THEN Flush(names, endian)
  ELSE LET f == fields[i]
           fmt == StructFormat(f, E)
       IN IF f.kind \in {"prim", "enum"}
          THEN IF ~fmt.has THEN PlanFrom(fields, E, i + 1, names, endian)
               ELSE IF endian # "None" /\ fmt.endian # endian
               THEN Flush(names, endian)
                    \o PlanFrom(fields, E, i + 1, <<f.name>>, fmt.endian)
               ELSE PlanFrom(fields, E, i + 1, names \o <<f.name>>, fmt.endian)
          ELSE Flush(names, endian) \o <<ComplexStep(f.name)>>
               \o PlanFrom(fields, E, i + 1, <<>>, "None")

PackingPlan(S) == PlanFrom(S.fields, S.endianness, 1, <<>>, "None")

\* The value a struct run packs for one field (pass 1 of serialize).
StructValue(f, val, now) ==
  IF f.is_checksum THEN 0
  ELSE IF f.is_length THEN 0
  ELSE IF f.is_timestamp THEN now
  ELSE IF val = None THEN 0
  ELSE val

\* One struct run of pass 1: its bytes and the fields' offsets.
RECURSIVE RunBytes(_, _, _, _, _, _)
RunBytes(S, inst, now, endian, names, start) ==
  IF names = <<>> THEN [ok |-> TRUE, exc |-> "", bytes |-> <<>>, info |-> {}]
  ELSE LET f == FieldOf(S, names[1])
           size == ChSize(f.fmt_char)
           h == StructPack(f.fmt_char, endian, StructValue(f, inst[f.name], now))
           t == RunBytes(S, inst, now, endian, Tail(names), start + size)
       IN IF ~h.ok \/ ~t.ok
          THEN [ok |-> FALSE, exc |-> "struct.error", bytes |-> <<>>, info |-> {}]
          ELSE [ok |-> TRUE, exc |-> "", bytes |-> h.val \o t.bytes,
                info |-> {[name |-> f.name, start |-> start, size |-> size]}
                         \cup t.info]

\* Pass 1 after a struct run: r is what packing the run gave.
StructPacked(acc, r) ==
  IF ~r.ok THEN [acc EXCEPT !.ok = FALSE, !.exc = r.exc]
  ELSE [acc EXCEPT !.buf = @ \o r.bytes, !.info = @ \cup r.info]

\* Pass 1 after a complex field: r is what field.to_bytes gave.
FieldPacked(f, acc, r) ==
  IF ~r.ok THEN [acc EXCEPT !.ok = FALSE, !.exc = r.exc]
  ELSE [acc EXCEPT !.buf = @ \o r.val,
                   !.info = @ \cup {[name |-> f.name, start |-> Len(acc.buf),
                                     size |-> Len(r.val)]}]

\* A complex field of pass 1: the encoder of an array pads the list it is
\* given in place, whether or not it then fails.
Pass1Field(S, f, now, acc) ==
  FieldPacked(f,
              [acc EXCEPT !.inst = IF f.kind = "array"
                                   THEN [@ EXCEPT ![f.name] =
                                           ArrayPadded(f, acc.inst[f.name])]
                                   ELSE @],
              FieldToBytes(f, S.endianness, acc.inst[f.name], now))

\* The body of the loop of pass 1 on one step of the plan.
Pass1Step(S, step, now, acc) ==
  IF step.action = "struct"
  THEN StructPacked(acc, RunBytes(S, acc.inst, now, step.endian, step.names,
                                  Len(acc.buf)))
  ELSE Pass1Field(S, FieldOf(S, step.names[1]), now, acc)

\* Pass 1 of Message.serialize from plan step i on: acc holds the buffer,
\* field_info, and the instance as the field encoders leave it.
RECURSIVE Pass1(_, _, _, _, _)
Pass1(S, plan, i, now, acc) ==
  IF i > Len(plan) \/ ~acc.ok THEN acc
  ELSE Pass1(S, plan, i + 1, now, Pass1Step(S, plan[i], now, acc))

InfoOf(info, nm) == CHOOSE x \in info : x.name = nm
HasInfo(info, nm) == \E x \in info : x.name = nm

\* buffer with bs written at 0-based offset off (struct.pack_into)
PackInto(buf, off, bs) ==
  [k \in 1..Len(buf) |-> IF off < k /\ k <= off + Len(bs) THEN bs[k - off] ELSE buf[k]]

\* The fields of a role, in plan order: pass 1 meets only the fields of
\* struct runs, so only those get patched.
RECURSIVE PlanStructNames(_)
PlanStructNames(plan) ==
  IF plan = <<>> THEN <<>>
  ELSE (IF plan[1].action = "struct" THEN plan[1].names ELSE <<>>)
       \o PlanStructNames(Tail(plan))

LengthPatches(S) ==
  SelectSeq(PlanStructNames(PackingPlan(S)),
            LAMBDA nm : ~FieldOf(S, nm).is_checksum /\ FieldOf(S, nm).is_length)
ChecksumPatches(S) ==
  SelectSeq(PlanStructNames(PackingPlan(S)), LAMBDA nm : FieldOf(S, nm).is_checksum)

\* A length that leaves out the bytes of end_field.
ApplyLength_exclusive(S, info, buf, nm) ==
  LET f == FieldOf(S, nm)
  IN IF f.start_field # "" /\ f.end_field # ""
        /\ HasInfo(info, f.start_field) /\ HasInfo(info, f.end_field)
     THEN LET start_byte == InfoOf(info, f.start_field).start
              end_byte == InfoOf(info, f.end_field).start
              calc_len == IF end_byte - start_byte < 0 THEN 0 ELSE end_byte - start_byte
              p == StructPack(f.fmt_char, ByteOrder(f, S.endianness), calc_len)
          IN IF p.ok THEN Ok(PackInto(buf, InfoOf(info, nm).start, p.val), 0)
             ELSE Raise("struct.error")
     ELSE Ok(buf, 0)
\* One pass-2 patch: (ok, buffer).
ApplyLength(S, info, buf, nm) ==
  LET f == FieldOf(S, nm)
  IN IF f.start_field # "" /\ f.end_field # ""
        /\ HasInfo(info, f.start_field) /\ HasInfo(info, f.end_field)
     THEN LET start_byte == InfoOf(info, f.start_field).start
              end_byte == InfoOf(info, f.end_field).start + InfoOf(info, f.end_field).size
              calc_len == IF end_byte - start_byte < 0 THEN 0 ELSE end_byte - start_byte
              p == StructPack(f.fmt_char, ByteOrder(f, S.endianness), calc_len)
          IN IF p.ok THEN Ok(PackInto(buf, InfoOf(info, nm).start, p.val), 0)
             ELSE Raise("struct.error")
     ELSE Ok(buf, 0)

ApplyChecksum(S, info, buf, nm) ==
  LET f == FieldOf(S, nm)
  IN IF f.start_field # "" /\ f.end_field # ""
        /\ HasInfo(info, f.start_field) /\ HasInfo(info, f.end_field)
     THEN LET start_byte == InfoOf(info, f.start_field).start
              end_byte == InfoOf(info, f.end_field).start + InfoOf(info, f.end_field).size
          IN IF start_byte < end_byte /\ end_byte <= Len(buf)
             THEN LET result == calculate(f.algorithm, SubSeq(buf, start_byte + 1, end_byte))
                      p == StructPack(f.fmt_char, ByteOrder(f, S.endianness), result)
                  IN IF p.ok THEN Ok(PackInto(buf, InfoOf(info, nm).start, p.val), 0)
                     ELSE Raise("struct.error")
             ELSE Ok(buf, 0)
     ELSE Ok(buf, 0)

RECURSIVE ApplyLengths(_, _, _, _)
ApplyLengths(S, info, buf, names) ==
  IF names = <<>> THEN Ok(buf, 0)
  ELSE LET r == ApplyLength(S, info, buf, names[1])
       IN IF ~r.ok THEN r ELSE ApplyLengths(S, info, r.val, Tail(names))

RECURSIVE ApplyChecksums(_, _, _, _)
ApplyChecksums(S, info, buf, names) ==
  IF names = <<>> THEN Ok(buf, 0)
  ELSE LET r == ApplyChecksum(S, info, buf, names[1])
       IN IF ~r.ok THEN r ELSE ApplyChecksums(S, info, r.val, Tail(names))

\* Message.serialize: [ok, exc, val (the bytes), inst (the instance after)].
Serialized(p1, c) ==
  IF ~c.ok THEN [ok |-> FALSE, exc |-> c.exc, val |-> <<>>, inst |-> p1.inst]
  ELSE [ok |-> TRUE, exc |-> "", val |-> c.val, inst |-> p1.inst]

\* Pass 2, the checksums, on what the lengths left.
Pass2Checksums(S, p1, l) ==
  IF ~l.ok THEN Serialized(p1, l)
  ELSE Serialized(p1, ApplyChecksums(S, p1.info, l.val, ChecksumPatches(S)))

\* A pass 2 that patches the checksums before the lengths.
Pass2Lengths_checksumsfirst(S, p1) ==
  IF ~p1.ok THEN Serialized(p1, p1)
  ELSE LET c == ApplyChecksums(S, p1.info, p1.buf, ChecksumPatches(S))
       IN IF ~c.ok THEN Serialized(p1, c)
          ELSE Serialized(p1, ApplyLengths(S, p1.info, c.val, LengthPatches(S)))
\* Pass 2, the lengths, on what pass 1 left.
Pass2Lengths(S, p1) ==
  IF ~p1.ok THEN Serialized(p1, p1)
  ELSE Pass2Checksums(S, p1, ApplyLengths(S, p1.info, p1.buf, LengthPatches(S)))

Serialize(S, inst, now) ==
  Pass2Lengths(S, Pass1(S, PackingPlan(S), 1, now,
                        [ok |-> TRUE, exc |-> "", buf |-> <<>>, info |-> {},
                         inst |-> inst]))

\* One struct run of from_bytes: the values of its fields, or ValueError for
\* an integer that is no member of the field's enum.
RECURSIVE RunValues(_, _, _, _, _)
RunValues(S, endian, names, chunk, obj) ==
  IF names = <<>> THEN Ok(obj, 0)
  ELSE LET f == FieldOf(S, names[1])
           size == ChSize(f.fmt_char)
           val == UnpackInt(f.fmt_char, endian, Take(chunk, size))
       IN IF f.kind = "enum" /\ val \notin f.members THEN Raise("ValueError")
          ELSE RunValues(S, endian, Tail(names), Drop(chunk, size),
                         [obj EXCEPT ![f.name] = val])

RECURSIVE RunSize(_, _)
RunSize(S, names) ==
  IF names = <<>> THEN 0
  ELSE ChSize(FieldOf(S, names[1]).fmt_char) + RunSize(S, Tail(names))

\* from_bytes after a complex field: r is what field.from_bytes gave.
FieldDecoded(f, fmt, offset, obj, r) ==
  IF ~r.ok THEN r
  ELSE Ok([obj EXCEPT ![f.name] = r.val],
          offset + (IF fmt.has THEN FmtSize(fmt) ELSE r.n))

\* A complex field of from_bytes; fmt is the field's struct format.
DecodeField(S, f, fmt, data, offset, obj) ==
  IF fmt.has /\ ~fmt.valid THEN Raise("struct.error")
  ELSE IF fmt.has /\ offset + FmtSize(fmt) > Len(data) THEN Raise("ValueError")
  ELSE FieldDecoded(f, fmt, offset, obj,
                    FieldFromBytes(f, S.endianness, Drop(data, offset)))

\* from_bytes after a struct run that ends at byte offset n.
RunDecoded(r, n) == IF ~r.ok THEN r ELSE Ok(r.val, n)

\* A struct run of from_bytes, chunk_size bytes long.
DecodeRun(S, step, chunk_size, data, offset, obj) ==
  IF offset + chunk_size > Len(data) THEN Raise("ValueError")
  ELSE RunDecoded(RunValues(S, step.endian, step.names,
                            SubSeq(data, offset + 1, offset + chunk_size), obj),
                  offset + chunk_size)

\* The body of the loop of from_bytes on one step of the plan.
DecodeStep(S, step, data, offset, obj) ==
  IF step.action = "struct"
  THEN DecodeRun(S, step, RunSize(S, step.names), data, offset, obj)
  ELSE DecodeField(S, FieldOf(S, step.names[1]),
                   StructFormat(FieldOf(S, step.names[1]), S.endianness),
                   data, offset, obj)

\* Message.from_bytes from plan step i on: r holds the instance and the
\* byte offset so far, or the exception raised.
RECURSIVE DecodeFrom(_, _, _, _, _)
DecodeFrom(S, plan, i, data, r) ==
  IF i > Len(plan) \/ ~r.ok THEN r
  ELSE DecodeFrom(S, plan, i + 1, data, DecodeStep(S, plan[i], data, r.n, r.val))

\* Message.from_bytes: Ok(instance, consumed) or Raise.
FromBytes(S, data) == DecodeFrom(S, PackingPlan(S), 1, data, Ok(NewInstance(S), 0))

(***************************************************************************)
(* The message classes of the model: the schemas the repository's own      *)
(* scripts and tests declare, cut to a few fields each.                    *)
(***************************************************************************)
\* Two classes with the same discriminator value at the same offset.
MsgA == MessageClass("MsgA", "<",
  << Discriminator(UInt8("id"), 1), UInt8("v") >>)
MsgB == MessageClass("MsgB", "<",
  << Discriminator(UInt8("id"), 1), UInt16("w") >>)
\* The same discriminator value at another offset.
MsgY == MessageClass("MsgY", "<",
  << UInt8("pad"), Discriminator(UInt8("id"), 1) >>)
\* Another discriminator value.
MsgC == MessageClass("MsgC", "<",
  << Discriminator(UInt8("id"), 2), UInt8("v") >>)

\* verify_backend.py, TestMsg
TestMsg == MessageClass("TestMsg", "<",
  << Discriminator(UInt8("disc"), 16),
     UInt32("val"),
     EnumField("status", {1, 2}, "B"),
     StringField("label", "Fixed", 10),
     FixedPointField("fp", 4, 4, 0),
     BitField("flags", << Bit(1, "flag_a"), Bit(3, "val_b") >>, "B", "LSB") >>)

\* TestMsg with the bit-group's byte order given.
OrderedMsg == MessageClass("OrderedMsg", "<",
  << Discriminator(UInt8("disc"), 17),
     Order(UInt16("magic"), ">"),
     EnumField("status", {1, 2}, "B"),
     StringField("label", "Fixed", 3),
     FixedPointField("fp", 4, 2, 1),
     FixedPointField("dm", 4, 2, 2),
     Order(BitField("flags", << Bit(1, "flag_a"), Bit(3, "val_b") >>, "B", "MSB"), "<"),
     ArrayField("data", "B", "<", "Dynamic", 0) >>)

\* tests/test_smart_fields.py: a checksum ahead of its range and a timestamp.
SmartMsg == MessageClass("SmartMsg", "<",
  << Default(UInt8("sync"), 170),
     Checksum(UInt16("checksum"), "CRC16", "payload_a", "payload_b"),
     Timestamp(UInt32("ts")),
     Default(UInt8("payload_a"), 1),
     Default(UInt8("payload_b"), 2) >>)

\* tests/common.py, KitchenSinkBinary: its magic (here the discriminator),
\* a Prefixed array, the length slot over them and the checksum whose range
\* holds the length slot.
LenMsg == MessageClass("LenMsg", "<",
  << Order(Discriminator(UInt16("magic"), 51966), ">"),
     Default(UInt8("version"), 1),
     ArrayField("items", "B", "<", "Prefixed", 0),
     Length(UInt16("msg_len"), "magic", "items"),
     Checksum(UInt16("crc"), "CRC16", "magic", "msg_len") >>)

\* A length slot whose end_field is declared before its start_field.
RevMsg == MessageClass("RevMsg", "<",
  << Discriminator(UInt8("disc"), 50),
     Length(UInt8("msg_len"), "tail", "disc"),
     Default(UInt16("body"), 7),
     Default(UInt8("tail"), 2) >>)

\* verify_backend.py, TestMsg: its discriminator and its enum.
EnumMsg == MessageClass("EnumMsg", "<",
  << Discriminator(UInt8("disc"), 19),
     EnumField("status", {1, 2}, "B") >>)

\* tests/common.py, KitchenSinkBinary: its two arrays.
ArrayMsg == MessageClass("ArrayMsg", "<",
  << Discriminator(UInt8("disc"), 18),
     ArrayField("scores", "B", "<", "Fixed", 2),
     ArrayField("items", "B", "<", "Prefixed", 0) >>)

\* tests/test_string_protocol.py: an ASCII class, keyed ("RET", "PING").
StringLogMsg ==
  [MessageClass("StringLogMsg", "<",
     << Default(StringField("cmd_type", "Dynamic", 10), <<82, 69, 84>>),
        Default(StringField("cmd_str", "Dynamic", 10), <<80, 73, 78, 71>>) >>)
   EXCEPT !.protocol_mode = "string"]

\* Classes for the register decorator: what stands before the discriminator.
\* A bit-group of one byte.
BitsFirst == MessageClass("BitsFirst", "<",
  << BitField("flags", << Bit(1, "flag_a"), Bit(3, "val_b") >>, "B", "MSB"),
     Discriminator(UInt8("disc"), 65) >>)
\* A fixed string of three bytes and a fixed-point number of one.
StrFirst == MessageClass("StrFirst", "<",
  << StringField("tag", "Fixed", 3),
     FixedPointField("fp", 4, 2, 1),
     Discriminator(UInt8("disc"), 66) >>)
\* A Fixed array of two items that name their byte order.
ArrFirst == MessageClass("ArrFirst", "<",
  << ArrayField("scores", "B", "<", "Fixed", 2),
     Discriminator(UInt8("disc"), 67) >>)
\* A Fixed array of two items that do not.
ArrBare == MessageClass("ArrBare", "<",
  << ArrayField("scores", "B", "", "Fixed", 2),
     Discriminator(UInt8("disc"), 68) >>)
\* A length-prefixed string.
DynFirst == MessageClass("DynFirst", "<",
  << StringField("tag", "Dynamic", 0),
     Discriminator(UInt8("disc"), 69) >>)
\* A checksum and a length that name fields the class does not have.
BadRef == MessageClass("BadRef", "<",
  << Discriminator(UInt8("disc"), 81),
     Checksum(UInt16("crc"), "CRC16", "nope", "payload"),
     Length(UInt8("msg_len"), "disc", "gone"),
     Default(UInt8("payload"), 7) >>)

\* tests/common.py: Status(str, Enum), OK = "OK" and ERROR = "ERR".
Status ==
  << [value |-> <<79, 75>>, name |-> <<79, 75>>],
     [value |-> <<69, 82, 82>>, name |-> <<69, 82, 82, 79, 82>>] >>

\* tests/common.py, KitchenSinkString: its msg_id, the two command fields
\* (keyed ("TEST", "KITCHEN")), the fixed label and the status.
KitchenSinkString ==
  [MessageClass("KitchenSinkString", "<",
     << UInt8("msg_id"),
        Default(StringField("cmd_type", "Dynamic", 4), <<84, 69, 83, 84>>),
        Default(StringField("cmd_str", "Dynamic", 7), <<75, 73, 84, 67, 72, 69, 78>>),
        StringField("label", "Fixed", 10),
        StringEnumField("status", Status) >>)
   EXCEPT !.protocol_mode = "string"]

AsciiClasses == <<StringLogMsg, KitchenSinkString>>
RegistryClasses == <<MsgA, MsgB, MsgY, StringLogMsg>>
CodecClasses == <<TestMsg, OrderedMsg, SmartMsg, ArrayMsg, LenMsg, RevMsg, EnumMsg>>
\* An enum stored as text of no fixed size (EnumField with storage_type
\* "String" and size_mode "Dynamic") between two bytes.
EnumDyn == MessageClass("EnumDyn", "<",
  << Discriminator(UInt8("disc"), 36),
     [StringEnumField("status", Status) EXCEPT !.size_mode = "Dynamic"],
     Default(UInt8("tail"), 2) >>)

\* Classes that declare no discriminator: two bytes, and a byte and a
\* length-prefixed string.
BareMsg == MessageClass("BareMsg", "<", << UInt8("a"), UInt16("b") >>)
BareDyn == MessageClass("BareDyn", "<",
  << UInt8("a"), StringField("s", "Dynamic", 0) >>)

SchemaClasses ==
  <<MsgA, MsgY, BitsFirst, StrFirst, ArrFirst, ArrBare, DynFirst, BadRef, EnumDyn,
    BareMsg, BareDyn>>

AllClasses ==
  RegistryClasses \o <<MsgC>> \o CodecClasses
  \o <<BitsFirst, StrFirst, ArrFirst, ArrBare, DynFirst, BadRef, KitchenSinkString,
       EnumDyn, BareMsg, BareDyn>>
ClassIn(classes, nm) == classes[CHOOSE i \in 1..Len(classes) : classes[i].name = nm]
ClassNamed(nm) == ClassIn(AllClasses, nm)

(***************************************************************************)
(* ASCII frames (protocols.py, string_message.py).                         *)
(***************************************************************************)
START_SYMBOL == 60
END_SYMBOL == 62
DELIM_FIELD == 59
DELIM_ID == 124
DELIM_TYPE == 124
DELIM_CMD == 124
USE_CHECKSUM == TRUE

\* bytes.index(c, from): the 1-based place of the first c at or after
\* `from`, 0 when there is none (Python raises ValueError).
IndexOf(s, c, from) ==
  IF \E i \in from..Len(s) : s[i] = c
  THEN CHOOSE i \in from..Len(s) : s[i] = c /\ \A j \in from..(i - 1) : s[j] # c
  ELSE 0

\* str.split(c, 1): one part when c does not occur, else two.
Split1(s, c) ==
  LET i == IndexOf(s, c, 1)
  IN IF i = 0 THEN <<s>> ELSE <<SubSeq(s, 1, i - 1), SubSeq(s, i + 1, Len(s))>>

\* str.split(c)
RECURSIVE SplitAll(_, _)
SplitAll(s, c) ==
  LET i == IndexOf(s, c, 1)
  IN IF i = 0 THEN <<s>> ELSE <<SubSeq(s, 1, i - 1)>> \o SplitAll(SubSeq(s, i + 1, Len(s)), c)

IsDigits(s) == s # <<>> /\ \A i \in 1..Len(s) : 48 <= s[i] /\ s[i] <= 57

RECURSIVE DigitsValue(_)
DigitsValue(s) ==
  IF s = <<>> THEN 0 ELSE 10 * DigitsValue(SubSeq(s, 1, Len(s) - 1)) + (s[Len(s)] - 48)

IsInt(s) == IsDigits(s) \/ (Len(s) > 1 /\ s[1] = 45 /\ IsDigits(Tail(s)))
IntValue(s) == IF s[1] = 45 THEN 0 - DigitsValue(Tail(s)) ELSE DigitsValue(s)

\* str(n) of a natural number, and of an integer
RECURSIVE NatText(_)
NatText(n) == IF n < 10 THEN <<48 + n>> ELSE NatText(n \div 10) \o <<48 + (n % 10)>>
IntText(n) == IF n < 0 THEN <<45>> \o NatText(0 - n) ELSE NatText(n)

\* format(n, "0wX") of a natural number: upper-case hex, w digits or more
HexDigit(d) == IF d < 10 THEN 48 + d ELSE 55 + d
RECURSIVE HexText(_)
HexText(n) == IF n < 16 THEN <<HexDigit(n)>> ELSE HexText(n \div 16) \o <<HexDigit(n % 16)>>
HexPadded(n, w) == Repeat(48, w - Len(HexText(n))) \o HexText(n)

\* int(text, 16) of a text of hex digits
IsHexChar(c) == (48 <= c /\ c <= 57) \/ (65 <= c /\ c <= 70) \/ (97 <= c /\ c <= 102)
IsHex(s) == s # <<>> /\ \A i \in 1..Len(s) : IsHexChar(s[i])
HexCharValue(c) == IF c <= 57 THEN c - 48 ELSE IF c <= 70 THEN c - 55 ELSE c - 87
RECURSIVE HexValue(_)
HexValue(s) ==
  IF s = <<>> THEN 0
  ELSE 16 * HexValue(SubSeq(s, 1, Len(s) - 1)) + HexCharValue(s[Len(s)])

\* enum_cls[text]: the member whose name is text
HasName(f, text) == \E i \in 1..Len(f.names) : f.names[i].name = text
MemberNamed(f, text) == f.names[CHOOSE i \in 1..Len(f.names) : f.names[i].name = text].value
\* member.name
NameOf(f, v) == f.names[CHOOSE i \in 1..Len(f.names) : f.names[i].value = v].name

\* A decoder that keeps every part as the text it is.
ParseValue_text(f, text) == text
\* StringMessage._parse_value: an enum is looked up by name, then by
\* integer value, and else stays a text; a text stays a text; a number is
\* read in decimal and a text that is no number stays a text.
ParseValue(f, text) ==
  IF f.kind = "enum"
  THEN IF HasName(f, text) THEN MemberNamed(f, text)
       ELSE IF f.fmt_char # "s" /\ IsInt(text) /\ IntValue(text) \in f.members
       THEN IntValue(text)
       ELSE text
  ELSE IF f.kind = "str" THEN text
  ELSE IF IsInt(text) THEN IntValue(text)
  ELSE text

\* Field.to_string and EnumField.to_string.  The ASCII classes here hold
\* texts, integers and enums.
to_string(f, value) ==
  LET v == IF value = NoneOf(f) /\ f.default # NoneOf(f) THEN f.default ELSE value
  IN IF v = NoneOf(f) THEN <<>>
     ELSE IF f.kind = "enum"
     THEN IF \E i \in 1..Len(f.names) : f.names[i].value = v THEN NameOf(f, v)
          ELSE IF f.fmt_char = "s" THEN v ELSE IntText(v)
     ELSE IF f.kind = "str" THEN v
     ELSE IntText(v)

RECURSIVE ZipBody(_, _, _, _)
ZipBody(S, names, parts, obj) ==
  IF names = <<>> \/ parts = <<>> THEN obj
  ELSE ZipBody(S, Tail(names), Tail(parts),
               [obj EXCEPT ![names[1]] = ParseValue(FieldOf(S, names[1]), parts[1])])

BodyFields(S) ==
  LET all == [i \in 1..Len(S.fields) |-> S.fields[i].name]
  IN SelectSeq(all, LAMBDA nm : nm \notin {"cmd_type", "cmd_str"}
                                /\ ~FieldOf(S, nm).is_checksum)

\* cls(): the fields at their defaults, and msg_id, which is 0 on
\* StringMessage unless the class declares a field of that name.
NewStringInstance(S) ==
  [nm \in FieldNames(S) \cup {"msg_id"} |->
     IF nm \in FieldNames(S) THEN FieldOf(S, nm).default ELSE 0]

\* The body of a frame: each body field's text and DELIM_FIELD.
RECURSIVE BodyText(_, _, _)
BodyText(S, inst, names) ==
  IF names = <<>> THEN <<>>
  ELSE to_string(FieldOf(S, names[1]), inst[names[1]]) \o <<DELIM_FIELD>>
       \o BodyText(S, inst, Tail(names))

\* The frame around content_to_hash.
Framed(content) ==
  content \o (IF USE_CHECKSUM THEN HexPadded(xor_sum(content), 2) ELSE <<>>)
  \o <<END_SYMBOL>>

\* StringMessage.serialize: formatting a msg_id of None raises TypeError.
StringSerialize(S, inst) ==
  IF inst["msg_id"] = None THEN Raise("TypeError")
  ELSE Ok(Framed(<<START_SYMBOL>> \o HexPadded(inst["msg_id"], 4) \o <<DELIM_ID>>
                 \o to_string(FieldOf(S, "cmd_type"), inst["cmd_type"]) \o <<DELIM_TYPE>>
                 \o to_string(FieldOf(S, "cmd_str"), inst["cmd_str"]) \o <<DELIM_CMD>>
                 \o BodyText(S, inst, BodyFields(S))), 0)

\* The three splits that cut a frame's text into command type, command and
\* body; ok is FALSE when a delimiter is missing.
NoHeader ==
  [ok |-> FALSE, msg_id_str |-> <<>>, cmd_type |-> <<>>, cmd_str |-> <<>>,
   body |-> <<>>]
HeaderCmd(msg_id_str, cmd_type, split3) ==
  IF Len(split3) < 2 THEN NoHeader
  ELSE [ok |-> TRUE, msg_id_str |-> msg_id_str, cmd_type |-> cmd_type,
        cmd_str |-> split3[1], body |-> split3[2]]
HeaderType(msg_id_str, split2) ==
  IF Len(split2) < 2 THEN NoHeader
  ELSE HeaderCmd(msg_id_str, split2[1], Split1(split2[2], DELIM_CMD))
HeaderId(split1) ==
  IF Len(split1) < 2 THEN NoHeader
  ELSE HeaderType(split1[1], Split1(split1[2], DELIM_TYPE))
SplitHeader(text) == HeaderId(Split1(text, DELIM_ID))

\* A decoder that leaves msg_id as cls() made it.
SetMsgId_skipped(obj, msg_id_str) == obj
\* obj.msg_id = int(msg_id_str, 16) in a try that passes
SetMsgId(obj, msg_id_str) ==
  IF IsHex(msg_id_str) THEN [obj EXCEPT !["msg_id"] = HexValue(msg_id_str)] ELSE obj

\* setattr(obj, nm, _parse_value(field, text)) when the class has field nm
SetParsed(S, obj, nm, text) ==
  IF nm \in FieldNames(S)
  THEN [obj EXCEPT ![nm] = ParseValue(FieldOf(S, nm), text)]
  ELSE obj

\* body.split(DELIM_FIELD) without the empty part a trailing delimiter leaves
BodyParts(parts0) ==
  IF parts0[Len(parts0)] = <<>> THEN SubSeq(parts0, 1, Len(parts0) - 1) ELSE parts0

\* The body fields zipped onto the instance.
SetBody(S, body, obj) ==
  IF body = <<>> THEN obj
  ELSE ZipBody(S, BodyFields(S), BodyParts(SplitAll(body, DELIM_FIELD)), obj)

\* The instance StringMessage.from_bytes builds from the header h.
StringObject(S, h) ==
  SetBody(S, h.body,
          SetParsed(S, SetParsed(S, SetMsgId(NewStringInstance(S), h.msg_id_str),
                                 "cmd_type", h.cmd_type),
                    "cmd_str", h.cmd_str))

\* StringMessage.from_bytes on the text between the frame symbols.
ParseFrame(S, end_idx, h) ==
  IF ~h.ok THEN Raise("ValueError") ELSE Ok(StringObject(S, h), end_idx)

\* StringMessage.from_bytes
StringMessageFromBytes(S, data) ==
  LET start_idx == IndexOf(data, START_SYMBOL, 1)
      end_idx == IF start_idx = 0 THEN 0 ELSE IndexOf(data, END_SYMBOL, start_idx)
  IN IF start_idx = 0 \/ end_idx = 0 THEN Raise("ValueError")
     ELSE LET blob == SubSeq(data, start_idx, end_idx - 1)
              inner0 == Tail(blob)
          IN IF ~Utf8Ok(blob) THEN Raise("UnicodeDecodeError")
             ELSE IF USE_CHECKSUM /\ Len(inner0) < 2 THEN Raise("ValueError")
             ELSE ParseFrame(S, end_idx,
                             SplitHeader(IF USE_CHECKSUM
                                         THEN SubSeq(inner0, 1, Len(inner0) - 2)
                                         ELSE inner0))

(***************************************************************************)
(* The registry (registry.py).  A dict is a sequence of entries in         *)
(* insertion order; a key set again keeps its place.                       *)
(*   lookup_map      : <<[offset, entries : <<[val, cls]>>]>>               *)
(*   message_configs : <<[val, tags : <<tag>>]>>                            *)
(*   string_messages : <<[cmd_type, cmd_str, cls]>>                         *)
(*   active          : the active system config, "" for None               *)
(***************************************************************************)
EmptyRegistry ==
  [lookup_map |-> <<>>, message_configs |-> <<>>, string_messages |-> <<>>,
   active |-> ""]

\* Registry.set_active_config
SetActiveConfig(reg, config_id) == [reg EXCEPT !.active = config_id]

HasDiscriminator(S) == \E i \in 1..Len(S.fields) : S.fields[i].is_discriminator
DiscIndex(S) ==
  CHOOSE i \in 1..Len(S.fields) :
    S.fields[i].is_discriminator /\ \A j \in 1..(i - 1) : ~S.fields[j].is_discriminator
DiscField(S) == S.fields[DiscIndex(S)]

\* The size Registry.register adds for a field before the discriminator;
\* -1 when it raises instead (no usable struct format).
PrecedingSize(f, E) ==
  LET fmt == StructFormat(f, E)
  IN IF fmt.has THEN (IF fmt.valid THEN FmtSize(fmt) ELSE -1)
     ELSE IF HasStruct(f) THEN FmtSize(fmt)
     ELSE -1

RECURSIVE OffsetBefore(_, _)
OffsetBefore(S, n) ==
  IF n = 0 THEN 0
  ELSE OffsetBefore(S, n - 1) + PrecedingSize(S.fields[n], S.endianness)

\* The fields register walks: those before the discriminator, or all of
\* them when there is none.
WalkedFields(S) == IF HasDiscriminator(S) THEN DiscIndex(S) - 1 ELSE Len(S.fields)

ConfigsOf(reg, val) ==
  IF \E i \in 1..Len(reg.message_configs) : reg.message_configs[i].val = val
  THEN reg.message_configs[CHOOSE i \in 1..Len(reg.message_configs) :
                             reg.message_configs[i].val = val].tags
  ELSE <<>>

InSeq(x, s) == \E i \in 1..Len(s) : s[i] = x

\* dict[key] = value on a sequence of entries; same(e) tells e has the key.
DictSet(d, same(_), entry) ==
  IF \E i \in 1..Len(d) : same(d[i])
  THEN [i \in 1..Len(d) |-> IF same(d[i]) THEN entry ELSE d[i]]
  ELSE Append(d, entry)

\* A table that keeps the first class entered for a value.
SetEntry_keepfirst(entries, val, cls) ==
  IF \E i \in 1..Len(entries) : entries[i].val = val THEN entries
  ELSE Append(entries, [val |-> val, cls |-> cls])
\* cls._lookup_map[disc_offset][disc_value] = msg_cls
SetEntry(entries, val, cls) ==
  DictSet(entries, LAMBDA e : e.val = val, [val |-> val, cls |-> cls])

LookupSet(lookup, offset, val, cls) ==
  LET old == IF \E i \in 1..Len(lookup) : lookup[i].offset = offset
             THEN lookup[CHOOSE i \in 1..Len(lookup) : lookup[i].offset = offset].entries
             ELSE <<>>
  IN DictSet(lookup, LAMBDA e : e.offset = offset,
             [offset |-> offset, entries |-> SetEntry(old, val, cls)])

\* The "Configs" lines of Registry.register.
ConfigsSet(reg, val, config_id) ==
  LET current_list == ConfigsOf(reg, val)
  IN IF config_id # ""
     THEN DictSet(reg.message_configs, LAMBDA e : e.val = val,
                  [val |-> val,
                   tags |-> IF InSeq(config_id, current_list) THEN current_list
                            ELSE Append(current_list, config_id)])
     ELSE IF current_list = <<>>
     THEN DictSet(reg.message_configs, LAMBDA e : e.val = val,
                  [val |-> val, tags |-> <<>>])
     ELSE reg.message_configs

\* Registry.register(msg_cls, config_id): Ok(registry after, n) or Raise;
\* n is 1 when the class was entered, 0 when register returned without.
Register(reg, S, config_id) ==
  IF S.protocol_mode = "string"
  THEN IF \E nm \in {"cmd_type", "cmd_str"} :
            nm \notin FieldNames(S) \/ FieldOf(S, nm).default = NoneOf(FieldOf(S, nm))
       THEN Raise("ValueError")
       ELSE LET key == [cmd_type |-> FieldOf(S, "cmd_type").default,
                        cmd_str |-> FieldOf(S, "cmd_str").default]
            IN Ok([reg EXCEPT !.string_messages =
                     DictSet(@, LAMBDA e : e.cmd_type = key.cmd_type /\ e.cmd_str = key.cmd_str,
                             [cmd_type |-> key.cmd_type, cmd_str |-> key.cmd_str,
                              cls |-> S.name])], 1)
  ELSE IF \E n \in 1..WalkedFields(S) : PrecedingSize(S.fields[n], S.endianness) < 0
  THEN Raise("ValueError")
  ELSE IF ~HasDiscriminator(S) THEN Ok(reg, 0)
  ELSE IF DiscField(S).default = None THEN Raise("ValueError")
  ELSE IF reg.active # "" /\ config_id # "" /\ config_id # reg.active THEN Ok(reg, 0)
  ELSE LET disc_value == DiscField(S).default
           disc_offset == OffsetBefore(S, DiscIndex(S) - 1)
       IN Ok([reg EXCEPT
                !.lookup_map = LookupSet(@, disc_offset, disc_value, S.name),
                !.message_configs = ConfigsSet(reg, disc_value, config_id)], 1)

\* What a Registry call gives: kind "ok" (obj, consumed), "none" for
\* (None, 0), or "raise" (exc; why tells the struct.error message apart:
\* "incomplete", "unknown", "parse").  tried lists the classes whose
\* from_bytes ran, in order.
Decoded(cls, r, tried) ==
  [kind |-> "ok", cls |-> cls, obj |-> r.val, consumed |-> r.n, exc |-> "",
   why |-> "", tried |-> tried]
NoObject ==
  [kind |-> "none", cls |-> "", obj |-> NoneDict, consumed |-> 0, exc |-> "",
   why |-> "", tried |-> <<>>]
Raised(exc, why, tried) ==
  [kind |-> "raise", cls |-> "", obj |-> NoneDict, consumed |-> 0, exc |-> exc,
   why |-> why, tried |-> tried]

StringKeyOf(reg, cmd_type, cmd_str) ==
  {i \in 1..Len(reg.string_messages) :
     reg.string_messages[i].cmd_type = cmd_type /\ reg.string_messages[i].cmd_str = cmd_str}

\* The class found for a frame tried on the frame: r is what its
\* from_bytes gave.
StringDecoded(cls, r) ==
  IF r.ok THEN Decoded(cls, r, <<cls>>) ELSE Raised("struct.error", "parse", <<cls>>)
StringTrial(cls, data) == StringDecoded(cls, StringMessageFromBytes(ClassNamed(cls), data))

\* The lookup in _string_messages: hit holds the places of the key.
StringLookup(reg, data, hit) ==
  IF hit = {} THEN Raised("struct.error", "unknown", <<>>)
  ELSE StringTrial(reg.string_messages[CHOOSE i \in hit : TRUE].cls, data)

\* Registry.deserialize_string on the text between the frame symbols.
StringContent(reg, data, utf8, h) ==
  IF ~utf8 \/ ~h.ok THEN Raised("struct.error", "parse", <<>>)
  ELSE StringLookup(reg, data, StringKeyOf(reg, h.cmd_type, h.cmd_str))

\* Registry.deserialize_string.  A memoryview has no index(): the first
\* statement of the try raises AttributeError, which the except clause
\* (ValueError, IndexError) lets through.
deserialize_string(reg, data, view) ==
  IF view THEN Raised("AttributeError", "", <<>>)
  ELSE
  LET s_idx == IndexOf(data, START_SYMBOL, 1)
      e_idx == IF s_idx = 0 THEN 0 ELSE IndexOf(data, END_SYMBOL, s_idx)
  IN IF s_idx = 0 \/ e_idx = 0 THEN Raised("struct.error", "parse", <<>>)
     ELSE StringContent(reg, data, Utf8Ok(SubSeq(data, s_idx + 1, e_idx - 1)),
                        SplitHeader(SubSeq(data, s_idx + 1, e_idx - 1)))

\* The candidates of Registry.deserialize in the order its two loops visit
\* them: offsets in insertion order, values in insertion order.
RECURSIVE Candidates(_)
Candidates(lookup) ==
  IF lookup = <<>> THEN <<>>
  ELSE [i \in 1..Len(lookup[1].entries) |->
          [offset |-> lookup[1].offset, val |-> lookup[1].entries[i].val,
           cls |-> lookup[1].entries[i].cls]]
       \o Candidates(Tail(lookup))

CaughtByTrial == {"ValueError", "struct.error", "IndexError", "UnicodeDecodeError"}

\* The state of the loops of Registry.deserialize: whether they were left
\* (and with what), incomplete_data, and the classes tried so far.
NoTrial ==
  [done |-> FALSE, result |-> NoObject, incomplete_data |-> FALSE, tried |-> <<>>]

\* The candidate matched: r is what msg_cls.from_bytes(data) gave.
TrialDecoded(c, st, r) ==
  IF r.ok
  THEN [st EXCEPT !.done = TRUE, !.result = Decoded(c.cls, r, Append(st.tried, c.cls))]
  ELSE IF r.exc \in CaughtByTrial
  THEN [st EXCEPT !.incomplete_data = TRUE, !.tried = Append(@, c.cls)]
  ELSE [st EXCEPT !.done = TRUE, !.result = Raised(r.exc, "", Append(st.tried, c.cls))]

\* peek is what the discriminator field read at the candidate's offset.
TrialPeeked(S, c, data, st, peek) ==
  IF ~peek.ok
  THEN IF peek.exc \in CaughtByTrial THEN [st EXCEPT !.incomplete_data = TRUE]
       ELSE [st EXCEPT !.done = TRUE, !.result = Raised(peek.exc, "", st.tried)]
  ELSE IF peek.val # c.val THEN st
  ELSE TrialDecoded(c, st, FromBytes(S, data))

TrialPeek(S, c, data, st) ==
  TrialPeeked(S, c, data, st,
              FieldFromBytes(DiscField(S), S.endianness, Drop(data, c.offset)))

\* The body of the loops of Registry.deserialize on one candidate.
Trial(reg, c, data, target_config, st) ==
  LET allowed == ConfigsOf(reg, c.val)
  IN IF ~(Len(data) > c.offset) THEN [st EXCEPT !.incomplete_data = TRUE]
     ELSE IF allowed # <<>> /\ target_config # "" /\ ~InSeq(target_config, allowed)
     THEN st
     ELSE TrialPeek(ClassNamed(c.cls), c, data, st)

\* The loops of Registry.deserialize over the candidates left.
RECURSIVE TrialFrom(_, _, _, _, _)
TrialFrom(reg, cands, data, target_config, st) ==
  IF st.done THEN st.result
  ELSE IF cands = <<>>
  THEN Raised("struct.error", IF st.incomplete_data THEN "incomplete" ELSE "unknown",
              st.tried)
  ELSE TrialFrom(reg, Tail(cands), data, target_config,
                 Trial(reg, cands[1], data, target_config, st))

\* Registry.deserialize(data, message_set).  view tells that data is a
\* memoryview (as StreamHandler.feed passes it): it has no startswith().
deserialize(reg, data, message_set, view) ==
  IF data = <<>> THEN NoObject
  ELSE IF view THEN Raised("AttributeError", "", <<>>)
  ELSE IF data[1] = START_SYMBOL THEN deserialize_string(reg, data, view)
  ELSE TrialFrom(reg, Candidates(reg.lookup_map), data,
                 IF message_set # "" THEN message_set ELSE reg.active, NoTrial)

(***************************************************************************)
(* The stream reassembler (stream.py).                                     *)
(***************************************************************************)
\* A feed that hands the registry a copy of the buffer as bytes.
FeedView_bytes == FALSE
\* view = memoryview(self._buffer): what feed hands to the registry is a
\* memoryview, not bytes.
FeedView == TRUE

\* except (ValueError, struct.error)
CaughtAsError(exc) == exc \in {"ValueError", "struct.error", "UnicodeDecodeError"}
\* A last handler that names the lookup errors only.
CaughtAsException_lookup(exc) == exc \in {"IndexError", "KeyError"}
\* except Exception
CaughtAsException(exc) == TRUE

\* A buffer declared on the class: every handler shares buffer 1.
BufferOf_shared(h) == 1
\* self._buffer is an attribute of the instance: handler h owns buffer h.
BufferOf(h) == h

\* A loop whose resynchronisation deletes the last byte of the buffer
\* instead of the first.
LoopOutcome_droplast(buf, q, r) ==
  LET stop == [buffer |-> buf, queue |-> q, again |-> FALSE, raised |-> FALSE]
      resync == IF Len(buf) > 0
                THEN [buffer |-> SubSeq(buf, 1, Len(buf) - 1), queue |-> q,
                      again |-> TRUE, raised |-> FALSE]
                ELSE stop
  IN CASE r.kind = "ok" ->
            [buffer |-> Drop(buf, r.consumed),
             queue |-> Append(q, [cls |-> r.cls, obj |-> r.obj]),
             again |-> TRUE, raised |-> FALSE]
       [] r.kind = "none" -> resync
       [] OTHER ->
            IF CaughtAsError(r.exc) THEN stop
            ELSE IF CaughtAsException(r.exc) THEN resync
            ELSE [stop EXCEPT !.raised = TRUE]
\* One pass of the while loop of feed over (buffer, queue), given what the
\* registry call gave (r): what is left, whether the loop goes on, and
\* whether an exception left feed.
LoopOutcome(buf, q, r) ==
  LET stop == [buffer |-> buf, queue |-> q, again |-> FALSE, raised |-> FALSE]
      resync == IF Len(buf) > 0
                THEN [buffer |-> Tail(buf), queue |-> q, again |-> TRUE, raised |-> FALSE]
                ELSE stop
  IN CASE r.kind = "ok" ->
            [buffer |-> Drop(buf, r.consumed),
             queue |-> Append(q, [cls |-> r.cls, obj |-> r.obj]),
             again |-> TRUE, raised |-> FALSE]
       [] r.kind = "none" -> resync
       [] OTHER ->
            IF CaughtAsError(r.exc) THEN stop
            ELSE IF CaughtAsException(r.exc) THEN resync
            ELSE [stop EXCEPT !.raised = TRUE]

LoopStep(reg, mode, message_set, buf, q) ==
  LoopOutcome(buf, q,
              IF mode = "STRING" THEN deserialize_string(reg, buf, FeedView)
              ELSE deserialize(reg, buf, message_set, FeedView))

\* The whole loop of one feed call run to its end from the pass that left s.
RECURSIVE RunLoop(_, _, _, _)
RunLoop(reg, mode, message_set, s) ==
  IF s.again THEN RunLoop(reg, mode, message_set,
                          LoopStep(reg, mode, message_set, s.buffer, s.queue))
  ELSE s

\* Registry state of a process that has imported its message classes:
\* each class of the sequence registered in order, without a config.
RECURSIVE RegisterAll(_, _)
RegisterAll(reg, classes) ==
  IF classes = <<>> THEN reg
  ELSE LET r == Register(reg, classes[1], "")
       IN RegisterAll(IF r.ok THEN r.val ELSE reg, Tail(classes))

StreamClasses == <<MsgA, MsgC, StringLogMsg>>

(***************************************************************************)
(* Bounds and input sets.                                                  *)
(***************************************************************************)
MaxChunk == 2
MaxFed == 5
MaxPairFed == 3
MaxRegs == 2
MaxData == 3
MaxCut == 12

Handlers == {1, 2}
Modes == {"BINARY", "STRING", "AUTO"}
\* A discriminator of MsgA, the frame start and the frame end.
Alphabet == {1, START_SYMBOL, END_SYMBOL}
Configs == {"", "A", "B"}
FeedSets == {"", "A"}

RECURSIVE SeqsUpTo(_, _)
SeqsUpTo(S, n) ==
  IF n = 0 THEN {<<>>}
  ELSE LET shorter == SeqsUpTo(S, n - 1)
       IN shorter \cup {Append(s, x) : s \in {t \in shorter : Len(t) = n - 1}, x \in S}

Chunks == SeqsUpTo(Alphabet, MaxChunk)

VARIABLES
  registry,   \* the class-level dictionaries of Registry
  regLog,     \* the registrations that took effect, in order
  call,       \* the last direct Registry.deserialize call and its outcome
  buffer,     \* buffer[b]: a bytearray
  queue,      \* queue[h]: the deque handler h is fed with
  pc,         \* pc[h]: "idle", or "loop" inside feed
  mode,       \* mode[h]: protocol_mode of handler h
  msgset,     \* msgset[h]: message_set of the feed call in progress
  raised,     \* raised[h]: an exception left a feed call of h
  fed,        \* fed[h]: all bytes fed to h so far
  solo,       \* solo[h]: buffer and queue of h had it been fed alone
  codec,      \* one instance on its way through serialize and from_bytes
  attempt     \* the last use of the register decorator and its outcome

vars == <<registry, regLog, call, buffer, queue, pc, mode, msgset, raised, fed,
          solo, codec, attempt>>
streamVars == <<buffer, queue, pc, mode, msgset, raised, fed, solo>>
registryVars == <<registry, regLog, call>>

NoAttempt == [cls |-> "", config_id |-> "", outcome |-> "none"]
NoCall == [data |-> <<>>, message_set |-> "", made |-> FALSE, result |-> NoObject]
NoCodec ==
  [cls |-> "", inst |-> NoneDict, phase |-> "none", now |-> 0, ser |-> Raise(""),
   after |-> NoneDict, dec |-> Raise(""), again |-> Raise("")]

StreamIdle ==
  /\ buffer = [b \in Handlers |-> <<>>]
  /\ queue = [h \in Handlers |-> <<>>]
  /\ pc = [h \in Handlers |-> "idle"]
  /\ msgset = [h \in Handlers |-> ""]
  /\ raised = [h \in Handlers |-> FALSE]
  /\ fed = [h \in Handlers |-> <<>>]
  /\ solo = [h \in Handlers |-> [buffer |-> <<>>, queue |-> <<>>]]

\* StreamHandler.__init__ after the classes registered: one handler of any
\* mode (the second is left alone).
Init ==
  /\ registry = RegisterAll(EmptyRegistry, StreamClasses)
  /\ regLog = <<>>
  /\ call = NoCall
  /\ codec = NoCodec
  /\ attempt = NoAttempt
  /\ mode \in {m \in [Handlers -> Modes] : m[2] = "AUTO"}
  /\ StreamIdle

\* Two handlers of any modes.
InitPair ==
  /\ registry = RegisterAll(EmptyRegistry, StreamClasses)
  /\ regLog = <<>>
  /\ call = NoCall
  /\ codec = NoCodec
  /\ attempt = NoAttempt
  /\ mode \in [Handlers -> Modes]
  /\ StreamIdle

\* The buffer and the queue a feed call leaves.
Left(s) == [buffer |-> s.buffer, queue |-> s.queue]

\* StreamHandler.feed up to the loop: an empty chunk returns at once.
FeedBegin(h, data, message_set, budget) ==
  /\ pc[h] = "idle"
  /\ Len(fed[1]) + Len(fed[2]) + Len(data) <= budget
  /\ IF data = <<>>
     THEN UNCHANGED streamVars
     ELSE /\ buffer' = [buffer EXCEPT ![BufferOf(h)] = @ \o data]
          /\ pc' = [pc EXCEPT ![h] = "loop"]
          /\ msgset' = [msgset EXCEPT ![h] = message_set]
          /\ fed' = [fed EXCEPT ![h] = @ \o data]
          /\ solo' = [solo EXCEPT ![h] =
                        Left(RunLoop(registry, mode[h], message_set,
                                     [buffer |-> solo[h].buffer \o data,
                                      queue |-> solo[h].queue, again |-> TRUE,
                                      raised |-> FALSE]))]
          /\ UNCHANGED <<queue, mode, raised>>
  /\ UNCHANGED <<registryVars, codec, attempt>>

\* One pass of the while loop of StreamHandler.feed.
FeedStep(h) ==
  /\ pc[h] = "loop"
  /\ \E s \in {LoopStep(registry, mode[h], msgset[h], buffer[BufferOf(h)], queue[h])} :
        /\ buffer' = [buffer EXCEPT ![BufferOf(h)] = s.buffer]
        /\ queue' = [queue EXCEPT ![h] = s.queue]
        /\ pc' = [pc EXCEPT ![h] = IF s.again THEN "loop" ELSE "idle"]
        /\ msgset' = [msgset EXCEPT ![h] = IF s.again THEN @ ELSE ""]
        /\ raised' = [raised EXCEPT ![h] = @ \/ s.raised]
  /\ UNCHANGED <<mode, fed, solo, registryVars, codec, attempt>>

Next ==
  \/ \E data \in Chunks, message_set \in FeedSets : FeedBegin(1, data, message_set, MaxFed)
  \/ FeedStep(1)

Spec == Init /\ [][Next]_vars

(***************************************************************************)
(* Direct use of the registry: classes are registered and the active       *)
(* config is set, then Registry.deserialize is called on bytes.  The call  *)
(* reads the registry and writes nothing, so one call ends a behaviour.    *)
(***************************************************************************)
Frames ==
  { <<60, 124, 82, 69, 84, 124, 80, 73, 78, 71, 124, 48, 48, 62>>,  \* <|RET|PING|00>
    <<60, 124, 82, 124, 80, 124, 48, 48, 62>>,                      \* <|R|P|00>
    <<60, 62>>,                                                     \* <>
    <<60, 124>> }                                                   \* <|
CallData == SeqsUpTo({1, 9}, MaxData) \cup Frames

InitRegistry ==
  /\ registry = EmptyRegistry
  /\ regLog = <<>>
  /\ call = NoCall
  /\ codec = NoCodec
  /\ attempt = NoAttempt
  /\ mode = [h \in Handlers |-> "AUTO"]
  /\ StreamIdle

\* Registry.set_active_config(config_id)
DoSetActiveConfig(config_id) ==
  /\ ~call.made
  /\ registry' = SetActiveConfig(registry, config_id)
  /\ UNCHANGED <<regLog, call, streamVars, codec, attempt>>

\* Registry.register(msg_cls, config_id)
DoRegister(S, config_id) ==
  /\ ~call.made
  /\ Len(regLog) < MaxRegs
  /\ LET r == Register(registry, S, config_id)
     IN IF r.ok /\ r.n = 1
        THEN /\ registry' = r.val
             /\ regLog' = Append(regLog, [cls |-> S.name, config_id |-> config_id])
        ELSE UNCHANGED <<registry, regLog>>
  /\ UNCHANGED <<call, streamVars, codec, attempt>>

\* Registry.deserialize(data, message_set) on bytes
DoDeserialize(data, message_set) ==
  /\ ~call.made
  /\ call' = [data |-> data, message_set |-> message_set, made |-> TRUE,
              result |-> deserialize(registry, data, message_set, FALSE)]
  /\ UNCHANGED <<registry, regLog, streamVars, codec, attempt>>

NextRegistry ==
  \/ \E config_id \in Configs : DoSetActiveConfig(config_id)
  \/ \E i \in 1..Len(RegistryClasses), config_id \in Configs :
       DoRegister(RegistryClasses[i], config_id)
  \/ \E data \in CallData, message_set \in Configs : DoDeserialize(data, message_set)

SpecRegistry == InitRegistry /\ [][NextRegistry]_vars

(***************************************************************************)
(* The binary codec: an instance is serialized and the bytes are decoded.  *)
(***************************************************************************)
Times == {5, 6}
FlagValues == {[flag_a |-> 1, val_b |-> 5], [flag_a |-> 0, val_b |-> 2]}

TestMsgInstances ==
  {[NewInstance(TestMsg) EXCEPT !["val"] = v, !["status"] = s, !["label"] = l,
                                !["fp"] = x, !["flags"] = fl] :
     v \in {0, 258}, s \in {1, 2}, l \in {<<72, 105>>}, x \in {24}, fl \in FlagValues}
OrderedMsgInstances ==
  {[NewInstance(OrderedMsg) EXCEPT !["magic"] = v, !["status"] = s, !["label"] = l,
                                   !["fp"] = x, !["dm"] = y, !["flags"] = fl,
                                   !["data"] = d] :
     v \in {51966}, s \in {1, 2}, l \in {<<72, 105>>}, x \in {-28, 25},
     y \in {-28, 24}, fl \in FlagValues, d \in {<<>>, <<1, 2>>}}
SmartMsgInstances ==
  {[NewInstance(SmartMsg) EXCEPT !["payload_a"] = a] : a \in {1, 7}}
ArrayMsgInstances ==
  {[NewInstance(ArrayMsg) EXCEPT !["scores"] = sc, !["items"] = it] :
     sc \in {<<1, 2>>, <<1>>}, it \in {<<>>, <<3>>}}

LenMsgInstances ==
  {[NewInstance(LenMsg) EXCEPT !["items"] = it] : it \in {<<>>, <<3>>, <<3, 4>>}}
RevMsgInstances ==
  {[NewInstance(RevMsg) EXCEPT !["body"] = b] : b \in {7, 258}}
EnumMsgInstances ==
  {[NewInstance(EnumMsg) EXCEPT !["status"] = s] : s \in {1, 2}}

InstancesOf(nm) ==
  CASE nm = "TestMsg" -> TestMsgInstances
    [] nm = "OrderedMsg" -> OrderedMsgInstances
    [] nm = "SmartMsg" -> SmartMsgInstances
    [] nm = "LenMsg" -> LenMsgInstances
    [] nm = "RevMsg" -> RevMsgInstances
    [] nm = "EnumMsg" -> EnumMsgInstances
    [] OTHER -> ArrayMsgInstances

\* Bytes from_bytes is handed that no serialize call made: up to MaxRaw
\* bytes out of the discriminator of EnumMsg, a member and a non-member of
\* its enum.
MaxRaw == 2
RawData == SeqsUpTo({19, 1, 3}, MaxRaw)

\* An instance of one of the classes, built with keyword arguments.
InitCodec ==
  /\ registry = EmptyRegistry
  /\ regLog = <<>>
  /\ call = NoCall
  /\ attempt = NoAttempt
  /\ mode = [h \in Handlers |-> "AUTO"]
  /\ StreamIdle
  /\ \E i \in 1..Len(CodecClasses) : \E inst \in InstancesOf(CodecClasses[i].name) :
       codec = [NoCodec EXCEPT !.cls = CodecClasses[i].name, !.inst = inst,
                               !.phase = "new"]

\* Message.serialize
DoSerialize(now) ==
  /\ codec.phase = "new"
  /\ \E r \in {Serialize(ClassNamed(codec.cls), codec.inst, now)} :
        codec' = [codec EXCEPT !.phase = "serialized", !.now = now,
                               !.ser = [ok |-> r.ok, exc |-> r.exc, val |-> r.val, n |-> 0],
                               !.after = r.inst]
  /\ UNCHANGED <<registryVars, streamVars, attempt>>

\* Message.from_bytes on the bytes serialize returned
DoFromBytes ==
  /\ codec.phase = "serialized"
  /\ codec.ser.ok
  /\ codec' = [codec EXCEPT !.phase = "decoded",
                            !.dec = FromBytes(ClassNamed(codec.cls), codec.ser.val)]
  /\ UNCHANGED <<registryVars, streamVars, attempt>>

\* Message.from_bytes on the first k bytes of what serialize returned
DoFromPrefix(k) ==
  /\ codec.phase = "serialized"
  /\ codec.ser.ok
  /\ k < Len(codec.ser.val)
  /\ codec' = [codec EXCEPT !.phase = "cut",
                            !.dec = FromBytes(ClassNamed(codec.cls),
                                              Take(codec.ser.val, k))]
  /\ UNCHANGED <<registryVars, streamVars, attempt>>

\* Message.serialize of the instance from_bytes returned, at the same time
DoReserialize ==
  /\ codec.phase = "decoded"
  /\ codec.dec.ok
  /\ \E r \in {Serialize(ClassNamed(codec.cls), codec.dec.val, codec.now)} :
        codec' = [codec EXCEPT !.phase = "reserialized",
                               !.again = [ok |-> r.ok, exc |-> r.exc, val |-> r.val,
                                          n |-> 0]]
  /\ UNCHANGED <<registryVars, streamVars, attempt>>

\* Message.from_bytes on bytes that come from elsewhere
DoFromData(data) ==
  /\ codec.phase = "new"
  /\ codec' = [codec EXCEPT !.phase = "raw", !.ser = Ok(data, 0),
                            !.dec = FromBytes(ClassNamed(codec.cls), data)]
  /\ UNCHANGED <<registryVars, streamVars, attempt>>

NextCodec ==
  \/ \E now \in Times : DoSerialize(now)
  \/ DoFromBytes
  \/ \E k \in 0..MaxCut : DoFromPrefix(k)
  \/ DoReserialize
  \/ \E data \in RawData : DoFromData(data)

SpecCodec == InitCodec /\ [][NextCodec]_vars

(***************************************************************************)
(* The register decorator: classes are declared, each class declared goes  *)
(* to Registry.register, and an instance of a class that was entered is    *)
(* serialized.                                                             *)
(***************************************************************************)
MaxDecorated == 1
SchemaConfigs == {"", "A"}

InitSchema ==
  /\ registry = EmptyRegistry
  /\ regLog = <<>>
  /\ call = NoCall
  /\ codec = NoCodec
  /\ attempt = NoAttempt
  /\ mode = [h \in Handlers |-> "AUTO"]
  /\ StreamIdle

\* What the decorator did with a class: r is what Registry.register gave.
Outcome(r) == IF ~r.ok THEN "raise" ELSE IF r.n = 1 THEN "entered" ELSE "skipped"

\* @register(system_config_id=config_id) on class S
DoDecorate(S, config_id) ==
  /\ codec.phase = "none"
  /\ Len(regLog) <= MaxDecorated
  /\ \E r \in {Register(registry, S, config_id)} :
        /\ attempt' = [cls |-> S.name, config_id |-> config_id, outcome |-> Outcome(r)]
        /\ IF Outcome(r) = "entered"
           THEN /\ registry' = r.val
                /\ regLog' = Append(regLog, [cls |-> S.name, config_id |-> config_id])
           ELSE UNCHANGED <<registry, regLog>>
  /\ UNCHANGED <<call, streamVars, codec>>

\* serialize() of an instance, built without arguments, of the class the
\* decorator entered last
DoEncode(now) ==
  /\ codec.phase = "none"
  /\ attempt.outcome = "entered"
  /\ \E r \in {Serialize(ClassNamed(attempt.cls), NewInstance(ClassNamed(attempt.cls)), now)} :
        codec' = [codec EXCEPT !.cls = attempt.cls,
                               !.inst = NewInstance(ClassNamed(attempt.cls)),
                               !.phase = "serialized", !.now = now,
                               !.ser = [ok |-> r.ok, exc |-> r.exc, val |-> r.val, n |-> 0],
                               !.after = r.inst]
  /\ UNCHANGED <<registryVars, streamVars, attempt>>

NextSchema ==
  \/ \E config_id \in SchemaConfigs : DoSetActiveConfig(config_id)
  \/ \E i \in 1..Len(SchemaClasses), config_id \in SchemaConfigs :
       DoDecorate(SchemaClasses[i], config_id)
  \/ \E now \in Times : DoEncode(now)

SpecSchema == InitSchema /\ [][NextSchema]_vars

(***************************************************************************)
(* ASCII frames: an instance of a registered ASCII class is serialized and *)
(* the frame is handed to Registry.deserialize.                            *)
(***************************************************************************)
Labels ==
  { <<77, 89, 76, 65, 66, 69, 76>>,   \* MYLABEL
    <<65, 59, 66>>,                   \* A;B
    <<49, 50>>,                       \* 12
    <<>> }
CmdTypes == { <<84, 69, 83, 84>>, <<88>> }   \* TEST, X

StringLogMsgInstances ==
  {[NewStringInstance(StringLogMsg) EXCEPT !["msg_id"] = i] : i \in {0, 255}}
KitchenSinkStringInstances ==
  {[NewStringInstance(KitchenSinkString) EXCEPT !["msg_id"] = i, !["cmd_type"] = t,
                                                !["label"] = l, !["status"] = st] :
     i \in {7, 99, None}, t \in CmdTypes, l \in Labels,
     st \in {Status[1].value, Status[2].value}}

AsciiInstancesOf(nm) ==
  IF nm = "StringLogMsg" THEN StringLogMsgInstances ELSE KitchenSinkStringInstances

\* The ASCII classes registered, and an instance of one of them built with
\* keyword arguments.
InitAscii ==
  /\ registry = RegisterAll(EmptyRegistry, AsciiClasses)
  /\ regLog = <<>>
  /\ call = NoCall
  /\ attempt = NoAttempt
  /\ mode = [h \in Handlers |-> "AUTO"]
  /\ StreamIdle
  /\ \E i \in 1..Len(AsciiClasses) : \E inst \in AsciiInstancesOf(AsciiClasses[i].name) :
       codec = [NoCodec EXCEPT !.cls = AsciiClasses[i].name, !.inst = inst,
                               !.phase = "new"]

\* StringMessage.serialize
DoStringSerialize ==
  /\ codec.phase = "new"
  /\ codec' = [codec EXCEPT !.phase = "serialized",
                            !.ser = StringSerialize(ClassNamed(codec.cls), codec.inst)]
  /\ UNCHANGED <<registryVars, streamVars, attempt>>

\* Registry.deserialize on the frame serialize returned
DoIdentify ==
  /\ codec.phase = "serialized"
  /\ codec.ser.ok
  /\ DoDeserialize(codec.ser.val, "")

NextAscii ==
  \/ DoStringSerialize
  \/ DoIdentify

SpecAscii == InitAscii /\ [][NextAscii]_vars

NextPair ==
  \/ \E h \in Handlers, data \in Chunks, message_set \in FeedSets :
       FeedBegin(h, data, message_set, MaxPairFed)
  \/ \E h \in Handlers : FeedStep(h)

SpecPair == InitPair /\ [][NextPair]_vars

(***************************************************************************)
(* Properties.                                                             *)
(***************************************************************************)
BinaryMode(h) == mode[h] \in {"BINARY", "AUTO"}

\* Instances of MsgA as the queue holds them, and their encodings.
StreamInstances ==
  {[cls |-> "MsgA", obj |-> [NewInstance(MsgA) EXCEPT !["v"] = x]] : x \in Alphabet}
EncodingOf(m) == Serialize(ClassNamed(m.cls), m.obj, 0).val
RECURSIVE EncodeAll(_)
EncodeAll(ms) == IF ms = <<>> THEN <<>> ELSE EncodingOf(ms[1]) \o EncodeAll(Tail(ms))
MessageRuns == SeqsUpTo(StreamInstances, 2)
\* Bytes that start no message: runs of the frame end symbol.
Garbage == SeqsUpTo({END_SYMBOL}, MaxFed - 4) \ {<<>>}

\* C1: once a handler in a binary mode has been fed, in any chunks, exactly
\* the concatenated encodings of some messages and feed has returned, its
\* queue holds exactly those messages in order.
C1_FragmentationInvariance ==
  \A h \in Handlers : \A ms \in MessageRuns :
    (BinaryMode(h) /\ pc[h] = "idle" /\ fed[h] = EncodeAll(ms)) => queue[h] = ms

\* What identification yields on the bytes the buffer of h holds.
IdentifyBytes(h, bs) ==
  IF mode[h] = "STRING" THEN deserialize_string(registry, bs, FALSE)
  ELSE deserialize(registry, bs, msgset[h], FALSE)
UnknownBytes(h, bs) ==
  LET r == IdentifyBytes(h, bs) IN r.kind = "raise" /\ r.why = "unknown"
\* An ASCII frame with both sentinels that does not parse.
MalformedBytes(h, bs) ==
  LET r == IdentifyBytes(h, bs)
      s_idx == IndexOf(bs, START_SYMBOL, 1)
  IN /\ r.kind = "raise" /\ r.why = "parse"
     /\ s_idx # 0 /\ IndexOf(bs, END_SYMBOL, s_idx) # 0
\* Handler h took a step.
Stepped(h) ==
  <<buffer[BufferOf(h)], queue[h], pc[h]>>' # <<buffer[BufferOf(h)], queue[h], pc[h]>>

C3_ResyncLiveness ==
  \A h \in Handlers : \A m1 \in StreamInstances, m2 \in StreamInstances :
    \A g \in Garbage :
      (BinaryMode(h) /\ pc[h] = "idle"
       /\ fed[h] = EncodingOf(m1) \o g \o EncodingOf(m2))
      => (queue[h] # <<>> /\ queue[h][Len(queue[h])] = m2)

\* C5: when all a handler in a binary mode was ever fed is a proper,
\* non-empty prefix of a message's encoding and feed has returned, nothing
\* was raised, the queue is empty and the buffer holds every byte fed.
C5_IncompleteAwaits ==
  \A h \in Handlers : \A m \in StreamInstances :
    \A k \in 1..(Len(EncodingOf(m)) - 1) :
      (BinaryMode(h) /\ pc[h] = "idle" /\ fed[h] = Take(EncodingOf(m), k))
      => (~raised[h] /\ queue[h] = <<>> /\ buffer[BufferOf(h)] = fed[h])

\* C6: no exception leaves feed, whatever the bytes and the mode.
C6_NoEscape == \A h \in Handlers : ~raised[h]
\* A handler in STRING mode was fed a frame that does not parse, and feed
\* has returned.
C6_Witness ==
  \E h \in Handlers :
    /\ mode[h] = "STRING" /\ pc[h] = "idle" /\ ~raised[h]
    /\ \E k \in 2..Len(fed[h]) : MalformedBytes(h, Take(fed[h], k))

\* C7: whatever the interleaving of the feed calls of two handlers, a
\* handler whose feed has returned has the buffer and the queue it would
\* have had it been fed its own chunks alone, and no step of one handler
\* changes the buffer or the queue of the other.
C7_Independent ==
  /\ [](\A h \in Handlers :
          pc[h] = "idle" =>
            /\ buffer[BufferOf(h)] = solo[h].buffer
            /\ queue[h] = solo[h].queue)
  /\ [][\A g \in Handlers : \A h \in Handlers \ {g} :
          (\/ pc'[g] # pc[g] \/ fed'[g] # fed[g] \/ queue'[g] # queue[g]
           \/ buffer'[BufferOf(g)] # buffer[BufferOf(g)]) =>
            /\ buffer'[BufferOf(h)] = buffer[BufferOf(h)]
            /\ queue'[h] = queue[h]
            /\ pc'[h] = pc[h]]_vars
\* Both handlers were fed different bytes; one is inside its loop with
\* bytes buffered while the other has returned.
C7_Witness ==
  /\ fed[1] # <<>> /\ fed[2] # <<>> /\ fed[1] # fed[2]
  /\ pc[1] = "loop" /\ buffer[BufferOf(1)] # <<>> /\ pc[2] = "idle"

\* The registrations of binary classes, and the (offset, value) each has.
BinaryAt(i) == ClassNamed(regLog[i].cls).protocol_mode = "binary"
KeyOf(nm) ==
  LET S == ClassNamed(nm)
  IN [offset |-> OffsetBefore(S, DiscIndex(S) - 1), val |-> DiscField(S).default]
Collide(i, j) ==
  /\ i < j /\ BinaryAt(i) /\ BinaryAt(j)
  /\ regLog[i].cls # regLog[j].cls
  /\ KeyOf(regLog[i].cls) = KeyOf(regLog[j].cls)
IsCandidate(nm) ==
  \E k \in 1..Len(Candidates(registry.lookup_map)) :
    Candidates(registry.lookup_map)[k].cls = nm
\* The last class registered with the (offset, value) of class nm.
LastWithKey(key) ==
  LET is == {i \in 1..Len(regLog) : BinaryAt(i) /\ KeyOf(regLog[i].cls) = key}
  IN regLog[CHOOSE i \in is : \A j \in is : j <= i].cls
\* The call took the binary path of Registry.deserialize.
BinaryCall == call.made /\ call.data # <<>> /\ call.data[1] # START_SYMBOL
MatchesKey(data, key) == Len(data) > key.offset /\ data[key.offset + 1] = key.val
Unfiltered == call.message_set = "" /\ registry.active = ""

\* C8 as stated: two classes registered with the same discriminator offset
\* and value both stay candidates, and of the classes registered, all with
\* that offset and value, a call returns the first registered that decodes.
C8_BothCandidates ==
  \A i \in 1..Len(regLog), j \in 1..Len(regLog) :
    Collide(i, j) =>
      /\ IsCandidate(regLog[i].cls) /\ IsCandidate(regLog[j].cls)
      /\ ( /\ BinaryCall /\ Unfiltered
           /\ \A k \in 1..Len(regLog) :
                BinaryAt(k) /\ KeyOf(regLog[k].cls) = KeyOf(regLog[i].cls)
           /\ MatchesKey(call.data, KeyOf(regLog[i].cls)) )
         => \A k \in 1..Len(regLog) :
              ( /\ FromBytes(ClassNamed(regLog[k].cls), call.data).ok
                /\ \A l \in 1..(k - 1) :
                     ~FromBytes(ClassNamed(regLog[l].cls), call.data).ok )
              => (call.result.kind = "ok" /\ call.result.cls = regLog[k].cls)

\* C8, amended: a class registered with the discriminator offset and value
\* of an earlier one replaces it; the only candidate for an offset and
\* value is the class registered with them last, and a call trial-decodes
\* and returns such classes only.
C8_LastRegistrationWins ==
  /\ \A k \in 1..Len(Candidates(registry.lookup_map)) :
       LET c == Candidates(registry.lookup_map)[k]
       IN c.cls = LastWithKey([offset |-> c.offset, val |-> c.val])
  /\ \A i \in 1..Len(regLog), j \in 1..Len(regLog) :
       (Collide(i, j) /\ LastWithKey(KeyOf(regLog[j].cls)) = regLog[j].cls)
       => ~IsCandidate(regLog[i].cls)
  /\ BinaryCall =>
       /\ \A k \in 1..Len(call.result.tried) :
            call.result.tried[k] = LastWithKey(KeyOf(call.result.tried[k]))
       /\ call.result.kind = "ok" =>
            call.result.cls = call.result.tried[Len(call.result.tried)]
\* Two classes collide, the bytes of the call decode as either, and the
\* call returned the one registered last.
C8_Witness ==
  /\ BinaryCall /\ call.result.kind = "ok"
  /\ \E i \in 1..Len(regLog), j \in 1..Len(regLog) :
       /\ Collide(i, j)
       /\ FromBytes(ClassNamed(regLog[i].cls), call.data).ok
       /\ call.result.cls = regLog[j].cls

\* The configs a class was registered with, and the config of the call.
AllowedOf(nm) == {regLog[i].config_id : i \in {j \in 1..Len(regLog) : regLog[j].cls = nm}} \ {""}
TargetConfig == IF call.message_set # "" THEN call.message_set ELSE registry.active
Eligible(nm) == AllowedOf(nm) = {} \/ TargetConfig \in AllowedOf(nm)
\* The candidates whose discriminator the bytes of the call match.
Matching == SelectSeq(Candidates(registry.lookup_map),
                      LAMBDA c : MatchesKey(call.data, [offset |-> c.offset, val |-> c.val]))
\* Trial decoding of the classes of cs in order, up to the first success.
RECURSIVE TriedUntilDecoded(_)
TriedUntilDecoded(cs) ==
  IF cs = <<>> THEN <<>>
  ELSE IF FromBytes(ClassNamed(cs[1].cls), call.data).ok THEN <<cs[1].cls>>
  ELSE <<cs[1].cls>> \o TriedUntilDecoded(Tail(cs))

\* C9: in a call on bytes with a config in force, the candidates
\* trial-decoded are exactly those whose discriminator matches and whose
\* own allowed configs are empty or contain that config, in order up to the
\* first that decodes; a class returned is one of them.
C9_ConfigFilter ==
  (BinaryCall /\ TargetConfig # "") =>
    /\ call.result.tried = TriedUntilDecoded(SelectSeq(Matching, LAMBDA c : Eligible(c.cls)))
    /\ call.result.kind = "ok" => Eligible(call.result.cls)

\* Two values of a field agree, up to one quantum for a fixed-point field.
SameField(f, a, b) ==
  IF f.kind = "fixed" /\ a # None
  THEN Abs(a - b) * Pow2(f.fractional_bits) < FloatDen
  ELSE a = b

\* C10: serialize returns bytes, and from_bytes on them returns an instance
\* equal to the first field by field, and the number of bytes serialized.
C10_RoundTrip ==
  /\ codec.phase \in {"serialized", "decoded"} => codec.ser.ok
  /\ codec.phase = "decoded" =>
       /\ codec.dec.ok
       /\ codec.dec.n = Len(codec.ser.val)
       /\ \A nm \in FieldNames(ClassNamed(codec.cls)) :
            SameField(FieldOf(ClassNamed(codec.cls), nm), codec.inst[nm], codec.dec.val[nm])

\* C11: from_bytes on a proper prefix of the bytes serialize returned raises
\* the "incomplete" error (ValueError or struct.error) and returns no
\* instance.
C11_TruncatedIncomplete ==
  codec.phase = "cut" =>
    /\ ~codec.dec.ok
    /\ codec.dec.exc \in {"ValueError", "struct.error"}

\* C12: the checksum of LenMsg, whose range runs from magic to the length
\* slot, is the CRC16 of those bytes as serialize returns them, the length
\* slot holding its final value.
C12_LengthBeforeChecksum ==
  (codec.phase = "serialized" /\ codec.cls = "LenMsg") =>
    /\ codec.ser.ok
    /\ LET n == Len(codec.ser.val)
       IN UnpackInt("H", "<", SubSeq(codec.ser.val, n - 1, n))
            = crc16(SubSeq(codec.ser.val, 1, n - 2))

\* LenMsg(items=[3, 4]) serialized: ca fe 01 03 04 05 00 32 77.
C12_Witness ==
  /\ codec.phase = "serialized"
  /\ codec.cls = "LenMsg"
  /\ codec.inst["items"] = <<3, 4>>
  /\ codec.ser.val = <<202, 254, 1, 3, 4, 5, 0, 50, 119>>

\* The bytes one field takes in the encoding of an instance.
EncodedSize(S, inst, f) ==
  IF f.kind \in {"prim", "enum"} THEN ChSize(f.fmt_char)
  ELSE Len(FieldToBytes(f, S.endianness, inst[f.name], 0).val)

\* start_offset of the i-th field: the bytes of the fields declared before.
RECURSIVE StartOffset(_, _, _)
StartOffset(S, inst, i) ==
  IF i <= 1 THEN 0
  ELSE StartOffset(S, inst, i - 1) + EncodedSize(S, inst, S.fields[i - 1])

FieldIndex(S, nm) == CHOOSE i \in 1..Len(S.fields) : S.fields[i].name = nm
EndOffset(S, inst, nm) ==
  StartOffset(S, inst, FieldIndex(S, nm)) + EncodedSize(S, inst, FieldOf(S, nm))

\* The number a length slot holds in the bytes serialize returned.
SlotValue(S, inst, bytes, nm) ==
  UnpackInt(FieldOf(S, nm).fmt_char, ByteOrder(FieldOf(S, nm), S.endianness),
            SubSeq(bytes, StartOffset(S, inst, FieldIndex(S, nm)) + 1,
                   EndOffset(S, inst, nm)))

LengthSlots(S) == {nm \in FieldNames(S) : FieldOf(S, nm).is_length}
SerializedWithLength ==
  /\ codec.phase = "serialized"
  /\ codec.ser.ok
  /\ LengthSlots(ClassNamed(codec.cls)) # {}

\* C13 as stated: every length slot of the bytes serialize returned holds
\* end_offset(end_field) - start_offset(start_field).
C13_LengthSlot ==
  SerializedWithLength =>
    \A nm \in LengthSlots(ClassNamed(codec.cls)) :
      LET S == ClassNamed(codec.cls)
      IN SlotValue(S, codec.inst, codec.ser.val, nm)
           = EndOffset(S, codec.inst, FieldOf(S, nm).end_field)
             - StartOffset(S, codec.inst, FieldIndex(S, FieldOf(S, nm).start_field))

\* C13, amended: every length slot holds end_offset(end_field) -
\* start_offset(start_field) when that is not negative, and 0 when the end
\* field ends before the start field begins.
C13_LengthSlotClamped ==
  SerializedWithLength =>
    \A nm \in LengthSlots(ClassNamed(codec.cls)) :
      LET S == ClassNamed(codec.cls)
          d == EndOffset(S, codec.inst, FieldOf(S, nm).end_field)
               - StartOffset(S, codec.inst, FieldIndex(S, FieldOf(S, nm).start_field))
      IN SlotValue(S, codec.inst, codec.ser.val, nm) = IF d < 0 THEN 0 ELSE d

\* LenMsg(items=[3, 4]) serialized with 5 in its length slot.
C13_Witness ==
  /\ SerializedWithLength
  /\ codec.cls = "LenMsg"
  /\ codec.inst["items"] = <<3, 4>>
  /\ SlotValue(LenMsg, codec.inst, codec.ser.val, "msg_len") = 5

SmartMsgSerialized ==
  /\ codec.phase = "serialized"
  /\ codec.cls = "SmartMsg"
  /\ codec.inst["payload_a"] = 1
  /\ codec.inst["payload_b"] = 2

\* C14 as stated: SmartMsg with payload bytes 01 02 serialized carries in
\* bytes [1..3) the number 0x1373, little-endian.
C14_Scenario4 ==
  SmartMsgSerialized =>
    /\ codec.ser.ok
    /\ SubSeq(codec.ser.val, 2, 3) = <<115, 19>>

\* C14, amended: the bytes [1..3) carry, little-endian, the CRC16 (register
\* from 0xFFFF, polynomial 0x1021, not reflected) of the bytes 01 02, and
\* that number is 0x0E7C.
C14_Scenario4Crc ==
  SmartMsgSerialized =>
    /\ codec.ser.ok
    /\ Len(codec.ser.val) = 9
    /\ UnpackInt("H", "<", SubSeq(codec.ser.val, 2, 3)) = crc16(<<1, 2>>)
    /\ SubSeq(codec.ser.val, 2, 3) = <<124, 14>>

\* SmartMsg serialized at time 5: aa 7c 0e 05 00 00 00 01 02.
C14_Witness ==
  /\ SmartMsgSerialized
  /\ codec.ser.val = <<170, 124, 14, 5, 0, 0, 0, 1, 2>>

\* C15: serialize of the instance from_bytes returned, at the same time,
\* returns the bytes that were decoded.
C15_Idempotent ==
  codec.phase = "reserialized" =>
    /\ codec.again.ok
    /\ codec.again.val = codec.ser.val

\* C16: from_bytes of EnumMsg on two bytes or more returns an instance
\* whose status is the integer of the second byte, member of the enum or
\* not.
C16_UnknownEnum ==
  (codec.phase = "raw" /\ codec.cls = "EnumMsg" /\ Len(codec.ser.val) >= 2) =>
    /\ codec.dec.ok
    /\ codec.dec.val["status"] = codec.ser.val[2]

\* A field of fixed size: every kind but the length-prefixed string and the
\* Prefixed and Dynamic arrays.
FixedSized(f) ==
  CASE f.kind = "str" -> f.size_mode = "Fixed"
    [] f.kind = "array" -> f.mode = "Fixed"
    [] OTHER -> TRUE

\* The encoded size of a field of fixed size.
FixedSizeOf(f) ==
  CASE f.kind = "str" -> f.length
    [] f.kind = "array" -> f.count * ChSize(f.item_char)
    [] f.kind = "fixed" -> ChSize(FpChar(f))
    [] OTHER -> ChSize(f.fmt_char)

RECURSIVE SizeSum(_, _)
SizeSum(S, n) == IF n = 0 THEN 0 ELSE SizeSum(S, n - 1) + FixedSizeOf(S.fields[n])

Decorated == attempt.outcome # "none" /\ HasDiscriminator(ClassNamed(attempt.cls))
EnteredAt(offset, val, nm) ==
  \E i \in 1..Len(registry.lookup_map) :
    /\ registry.lookup_map[i].offset = offset
    /\ \E j \in 1..Len(registry.lookup_map[i].entries) :
         registry.lookup_map[i].entries[j] = [val |-> val, cls |-> nm]

\* C17: the decorator on a class with a discriminator raises exactly when a
\* field declared before the discriminator has no fixed size, and a class
\* it enters is in the lookup table at the sum of the sizes of those fields.
C17_DiscriminatorOffset ==
  Decorated =>
    LET S == ClassNamed(attempt.cls)
    IN /\ (attempt.outcome # "raise")
            <=> (\A n \in 1..(DiscIndex(S) - 1) : FixedSized(S.fields[n]))
       /\ attempt.outcome = "entered" =>
            EnteredAt(SizeSum(S, DiscIndex(S) - 1), DiscField(S).default, S.name)

\* A length or checksum field of S that names a field S does not have.
UnknownReference(S) ==
  \E i \in 1..Len(S.fields) :
    /\ S.fields[i].is_length \/ S.fields[i].is_checksum
    /\ \/ S.fields[i].start_field \notin FieldNames(S)
       \/ S.fields[i].end_field \notin FieldNames(S)

\* C18: the decorator raises on a class with a length or checksum that
\* names a field the class does not have, and no instance of such a class
\* is serialized.
C18_UnknownReference ==
  /\ (attempt.outcome # "none" /\ UnknownReference(ClassNamed(attempt.cls)))
       => attempt.outcome = "raise"
  /\ codec.phase = "serialized" => ~UnknownReference(ClassNamed(codec.cls))

\* The instance of scenario 6: msg_id 99, label MYLABEL, status ERROR.
Scenario6 ==
  /\ codec.cls = "KitchenSinkString"
  /\ codec.inst = [NewStringInstance(KitchenSinkString) EXCEPT
                     !["msg_id"] = 99, !["label"] = <<77, 89, 76, 65, 66, 69, 76>>,
                     !["status"] = Status[2].value]

\* <0063|TEST|KITCHEN|99;MYLABEL   ;ERROR;
Scenario6Text ==
  <<60, 48, 48, 54, 51, 124, 84, 69, 83, 84, 124, 75, 73, 84, 67, 72, 69, 78, 124,
    57, 57, 59, 77, 89, 76, 65, 66, 69, 76, 32, 32, 32, 59, 69, 82, 82, 79, 82, 59>>

\* C19: the instance of scenario 6 serializes to the text
\* <0063|TEST|KITCHEN|99;MYLABEL   ;ERROR;CC>, the label padded to 10
\* characters and CC the XOR of the bytes before it in two hex digits.
C19_Scenario6 ==
  (Scenario6 /\ codec.phase = "serialized") =>
    /\ codec.ser.ok
    /\ codec.ser.val = Scenario6Text \o HexPadded(xor_sum(Scenario6Text), 2) \o <<62>>

\* An instance whose serialize and Registry.deserialize have been called.
Identified == codec.phase = "serialized" /\ call.made

\* What the call returned is an instance of the class of the instance
\* serialized, equal to it in msg_id and in every field, and the length of
\* the frame.
RoundTripped ==
  /\ call.result.kind = "ok"
  /\ call.result.cls = codec.cls
  /\ call.result.obj = codec.inst
  /\ call.result.consumed = Len(codec.ser.val)

Marks == {START_SYMBOL, END_SYMBOL, DELIM_FIELD, DELIM_ID, DELIM_TYPE, DELIM_CMD}
PlainText(v) == \A i \in 1..Len(v) : v[i] \notin Marks
Plain(S, inst) ==
  /\ inst["msg_id"] \in 0..65535
  /\ inst["cmd_type"] = FieldOf(S, "cmd_type").default
  /\ inst["cmd_str"] = FieldOf(S, "cmd_str").default
  /\ \A nm \in FieldNames(S) : FieldOf(S, nm).kind = "str" => PlainText(inst[nm])

BodyTokens(frame) ==
  LET h == SplitHeader(SubSeq(frame, 2, Len(frame) - 3))
  IN IF ~h.ok \/ h.body = <<>> THEN <<>>
     ELSE BodyParts(SplitAll(h.body, DELIM_FIELD))

\* C21: Registry.deserialize on a complete frame of a registered ASCII
\* class whose body holds more or fewer tokens than the class has body
\* fields raises and returns no instance.
C21_TokenCount ==
  (Identified /\ codec.inst["cmd_type"] = FieldOf(ClassNamed(codec.cls), "cmd_type").default
     /\ Len(BodyTokens(codec.ser.val)) # Len(BodyFields(ClassNamed(codec.cls))))
    => call.result.kind = "raise"

\* C22: the Prefixed array of ArrayMsg is written, after the discriminator
\* and the two scores, as a count of four bytes, little-endian, and the
\* items; from_bytes reads the items back and consumes all the bytes.
C22_PrefixedArray ==
  /\ (codec.cls = "ArrayMsg" /\ codec.phase = "serialized") =>
       /\ codec.ser.ok
       /\ SubSeq(codec.ser.val, 4, Len(codec.ser.val))
            = <<Len(codec.inst["items"]), 0, 0, 0>> \o codec.inst["items"]
  /\ (codec.cls = "ArrayMsg" /\ codec.phase = "decoded") =>
       /\ codec.dec.ok
       /\ codec.dec.val["items"] = codec.inst["items"]
       /\ codec.dec.n = Len(codec.ser.val)

\* The fields whose wire value serialize computes: timestamps, lengths and
\* checksums.
ComputedFields(S) ==
  {nm \in FieldNames(S) : \/ FieldOf(S, nm).is_timestamp
                          \/ FieldOf(S, nm).is_length
                          \/ FieldOf(S, nm).is_checksum}

\* C23: after serialize, the timestamp, length and checksum attributes of
\* the serialized instance equal those of the instance decoded from the
\* bytes serialize returned.
C23_ComputedOnInstance ==
  (codec.phase = "decoded" /\ codec.dec.ok) =>
    \A nm \in ComputedFields(ClassNamed(codec.cls)) :
      codec.after[nm] = codec.dec.val[nm]

\* The buffer of handler h is a proper, non-empty prefix of the encoding of
\* a message of a registered class: a valid message that has arrived in part.
PartialAtHead(h) ==
  \E m \in StreamInstances :
    \E k \in 1..(Len(EncodingOf(m)) - 1) :
      buffer[BufferOf(h)] = Take(EncodingOf(m), k)

\* C24: every pass of the feed loop either appends a message and removes at
\* least one byte, or removes exactly the first byte and appends nothing, or
\* leaves the loop with buffer and queue as they were; and a pass of a
\* handler in a binary mode whose buffer is a valid message arrived in part
\* removes no byte.
C24_FeedPass ==
  [][\A h \in Handlers :
       (pc[h] = "loop" /\ Stepped(h)) =>
         /\ \/ /\ Len(queue'[h]) = Len(queue[h]) + 1
               /\ Len(buffer'[BufferOf(h)]) < Len(buffer[BufferOf(h)])
            \/ /\ queue'[h] = queue[h]
               /\ buffer[BufferOf(h)] # <<>>
               /\ buffer'[BufferOf(h)] = Tail(buffer[BufferOf(h)])
            \/ /\ pc'[h] = "idle"
               /\ queue'[h] = queue[h]
               /\ buffer'[BufferOf(h)] = buffer[BufferOf(h)]
         /\ (BinaryMode(h) /\ PartialAtHead(h)) =>
               buffer'[BufferOf(h)] = buffer[BufferOf(h)]]_vars

\* The field names of a plan: the names of each step, in the order of the
\* steps.
RECURSIVE PlanNames(_)
PlanNames(plan) ==
  IF plan = <<>> THEN <<>> ELSE plan[1].names \o PlanNames(Tail(plan))

\* The names of the fields of a class in the order of its declaration.
DeclaredNames(S) == [i \in 1..Len(S.fields) |-> S.fields[i].name]

\* Every field of a struct step has the endianness of the step.
OneEndianness(S, step) ==
  step.action = "struct" =>
    \A i \in 1..Len(step.names) :
      StructFormat(FieldOf(S, step.names[i]), S.endianness).endian = step.endian

\* The plan of S names the fields of S, each once, in declared order, and
\* no struct step mixes endiannesses.
PlanInOrder(S) ==
  /\ PlanNames(PackingPlan(S)) = DeclaredNames(S)
  /\ \A k \in 1..Len(PackingPlan(S)) : OneEndianness(S, PackingPlan(S)[k])

\* C25: the packing plan the decorator builds for a class names exactly
\* the declared fields of the class, each once, in declared order, and
\* every struct step holds fields of one endianness.
C25_PlanOrder ==
  attempt.cls # "" => PlanInOrder(ClassNamed(attempt.cls))

\* C26: a call that returns an instance of an ASCII class while a config is
\* in force returns a class registered without a config or with that
\* config among its configs.
C26_AsciiConfigFilter ==
  ( /\ call.made /\ call.result.kind = "ok"
    /\ ClassNamed(call.result.cls).protocol_mode = "string"
    /\ TargetConfig # "" )
  => Eligible(call.result.cls)

\* s is what is left of t after some bytes were taken from its front.
IsSuffix(s, t) == Len(s) <= Len(t) /\ s = Drop(t, Len(t) - Len(s))

\* C27: in every step of a handler the buffer stays a suffix of all the
\* bytes fed to it so far; a step that is fed bytes appends them to both,
\* and any other step leaves a suffix of the buffer it found, shorter by
\* at most one byte when it appends no message, so bytes leave from the
\* front only, in order and once.
C27_BufferConservation ==
  [][\A h \in Handlers :
       /\ IsSuffix(buffer'[BufferOf(h)], fed'[h])
       /\ IF fed'[h] # fed[h]
          THEN \E data \in Chunks :
                 /\ fed'[h] = fed[h] \o data
                 /\ buffer'[BufferOf(h)] = buffer[BufferOf(h)] \o data
          ELSE /\ IsSuffix(buffer'[BufferOf(h)], buffer[BufferOf(h)])
               /\ queue'[h] = queue[h] =>
                    Len(buffer[BufferOf(h)]) - Len(buffer'[BufferOf(h)]) <= 1]_vars
\* Two bytes were fed, the loop has deleted the first, and the second is
\* still in the buffer.
C27_Witness ==
  /\ pc[1] = "loop" /\ Len(fed[1]) = 2 /\ fed[1][1] # fed[1][2]
  /\ buffer[BufferOf(1)] = Tail(fed[1])

\* Entry e of a queue is an instance of an ASCII class.
AsciiInstance(e) == ClassNamed(e.cls).protocol_mode = "string"

C29_UntaggedEligible ==
  BinaryCall =>
    \A k \in 1..Len(Matching) :
      ( /\ AllowedOf(Matching[k].cls) = {}
        /\ FromBytes(ClassNamed(Matching[k].cls), call.data).ok )
      => call.result.kind = "ok"

\* C30: the decorator, given a binary class that declares no discriminator,
\* raises nothing and leaves the registry, its lookup table included, as it
\* was, whatever the fields of the class.
C30_NoDiscriminator ==
  [][( /\ attempt' # attempt
       /\ ClassNamed(attempt'.cls).protocol_mode = "binary"
       /\ ~HasDiscriminator(ClassNamed(attempt'.cls)) )
     => /\ attempt'.outcome = "skipped"
        /\ registry' = registry]_vars
====
